---------------------------- MODULE Spec2Model ----------------------------
(***************************************************************************)
(* Burn-after-reading container service (BAR): the container codec, the    *)
(* access checks of the redemption routes, the view ledger kept in the     *)
(* database and the periodic sweep.                                         *)
(*                                                                         *)
(* Python values are modelled as follows.  A str password is a sequence of *)
(* one-character strings; None and "" are both the empty sequence (the     *)
(* code only ever tests a password for truthiness).  A dict is a function  *)
(* whose DOMAIN is its key set.  An exception is a result record whose     *)
(* "exc" names it.  Times are minutes; a missing expires_at is NoExpiry.    *)
(***************************************************************************)
EXTENDS Integers, Sequences, FiniteSets, TLC

VARIABLES
    \* ---- container codec (Seal / tamper / Open) ----
    codecStage,     \* "input", "sealed", "tampered", "opened"
    sealInput,      \* the arguments of create_bar_file
    sealed,         \* what create_bar_file returned: [bar_data, metadata]
    envelope,       \* the container bytes handed to Open
    tamper,         \* which element of the envelope was changed ("none")
    openInput,      \* [password, via] of the last Open
    openResult,     \* the result of the last Open
    \* ---- server: view ledger, stored file, requests in flight, sweep ----
    backend,        \* Database.is_postgres: "postgres" or "sqlite"
    now,            \* the clock, in minutes
    row,            \* the bar_files row of the one token
    fileOnDisk,     \* os.path.exists(file_path)
    pc,             \* where each request is between its awaits
    loc,            \* the local variables of each request
    sweepPc,        \* where cleanup_expired_bar_files is
    sweepHit,       \* whether the token is in the list the sweep iterates
    sweeps,         \* sweeps started so far
    otp_storage,    \* OTPService.otp_storage: the session of the one token
    \* ---- security.py module state ----
    password_attempts,      \* key -> list of [timestamp, success]
    rate_limit_storage,     \* list of request timestamps of the one client IP
    \* ---- history ----
    results         \* the finished requests, in order of completion

codecVars == <<codecStage, sealInput, sealed, envelope, tamper, openInput, openResult>>

serverVars == <<backend, otp_storage, row, fileOnDisk, pc, loc, sweepPc, sweepHit, sweeps>>

guardVars == <<password_attempts, rate_limit_storage>>

vars ==
    <<codecStage, sealInput, sealed, envelope, tamper, openInput, openResult,
      backend, otp_storage, now, row, fileOnDisk, pc, loc, sweepPc, sweepHit, sweeps,
      password_attempts, rate_limit_storage, results>>

(***************************************************************************)
(* Bounds and small input sets                                             *)
(***************************************************************************)
NoExpiry == 0 - 1

SP == " "

PwA == <<"p", "a", "s", "s", "w", "0", "r", "d">>
PwB == <<"P", "a", "s", "s", "w", "0", "r", "d">>

\* Passwords a client may type: two strong ones, each also with a leading or
\* a trailing blank, a short one, a blank one, and none.
CandidatePasswords ==
    { <<>>, <<SP>>, <<"a", "1">>,
      PwA, PwB, <<SP>> \o PwA, PwA \o <<SP>>, <<SP>> \o PwB }

Plaintexts == {"hello", "world"}
Filenames == {"a.txt"}
Salts == {"salt1", "salt2"}
RandomKeys == {"key1", "key2"}
StorageModes == {"client", "server"}

(***************************************************************************)
(* dict helpers                                                            *)
(***************************************************************************)
Has(d, k) == k \in DOMAIN d

Put(d, k, v) == [x \in (DOMAIN d) \cup {k} |-> IF x = k THEN v ELSE d[x]]

Del(d, k) == [x \in (DOMAIN d) \ {k} |-> d[x]]

(***************************************************************************)
(* str.strip() and the password strength rule of SealRequest               *)
(***************************************************************************)
RECURSIVE LStrip(_)
LStrip(s) == IF s # <<>> /\ Head(s) = SP THEN LStrip(Tail(s)) ELSE s

RECURSIVE RStrip(_)
RStrip(s) ==
    IF s # <<>> /\ s[Len(s)] = SP THEN RStrip(SubSeq(s, 1, Len(s) - 1)) ELSE s

Strip(s) == RStrip(LStrip(s))

LowerChars == {"a", "d", "p", "r", "s", "w"}
UpperChars == {"P"}
DigitChars == {"0", "1"}
SpecialChars == {"!"}

HasChar(s, class) == \E i \in 1..Len(s) : s[i] \in class

B2N(b) == IF b THEN 1 ELSE 0

MinPasswordLen == 8
MaxPasswordLen == 128

validate_password_strength(password) ==
    IF password = <<>> THEN TRUE
    ELSE IF Len(password) < MinPasswordLen THEN FALSE
    ELSE IF Len(password) > MaxPasswordLen THEN FALSE
    ELSE B2N(HasChar(password, LowerChars)) + B2N(HasChar(password, UpperChars))
         + B2N(HasChar(password, DigitChars)) + B2N(HasChar(password, SpecialChars)) >= 2

MinViews == 1
MaxViewsAllowed == 100

validate_max_views(v) == ~(v < MinViews \/ v > MaxViewsAllowed)

SealPasswords == {pw \in CandidatePasswords : validate_password_strength(pw)}

(***************************************************************************)
(* Crypto primitives, as free constructors: two results are equal exactly  *)
(* when their arguments are.                                               *)
(***************************************************************************)
sha256(x) == <<"sha256", x>>

calculate_file_hash(file_data) == sha256(file_data)

generate_key(r) == <<"fernet", r>>

derive_key_from_password(password, salt) == <<"pbkdf2", password, salt>>

encrypt_file(file_data, key) == <<"token", key, file_data>>

\* Fernet.decrypt: InvalidToken unless the token was made with this key.
decrypt_file(encrypted_data, key) ==
    IF Len(encrypted_data) = 3 /\ encrypted_data[1] = "token" /\ encrypted_data[2] = key
    THEN [status |-> "ok", data |-> encrypted_data[3]]
    ELSE [status |-> "InvalidToken", data |-> ""]

generate_hmac_signature(data, key) == <<"hmac", key, data>>

\* TRUE, or TamperDetectedException (FALSE)
verify_hmac_signature(data, key, signature) ==
    generate_hmac_signature(data, key) = signature

b64encode(x) == <<"b64", x>>
b64decode(y) == y[2]

\* json.dumps(..., sort_keys=True, separators=(',', ':')): a function has no
\* key order and no whitespace, so the canonical text is the value itself.
json_dumps(d) == <<"json", d>>
json_loads(t) == t[2]

BAR_HEADER == "BAR_FILE_V1\n"


(***************************************************************************)
(* Metadata constructors                                                   *)
(***************************************************************************)
ExpiresAt(utcnow, expiry_minutes) ==
    IF expiry_minutes > 0 THEN utcnow + expiry_minutes ELSE NoExpiry

create_server_metadata(filename, max_views, expiry_minutes, password_protected, view_only, utcnow) ==
    [ filename |-> filename,
      created_at |-> utcnow,
      expires_at |-> ExpiresAt(utcnow, expiry_minutes),
      max_views |-> max_views,
      current_views |-> 0,
      password_protected |-> password_protected,
      view_only |-> view_only,
      storage_mode |-> "server",
      file_hash |-> sha256(""),
      version |-> "1.0" ]

create_client_metadata(filename, expiry_minutes, password_protected, view_only, utcnow) ==
    [ filename |-> filename,
      created_at |-> utcnow,
      expires_at |-> ExpiresAt(utcnow, expiry_minutes),
      password_protected |-> password_protected,
      view_only |-> view_only,
      storage_mode |-> "client",
      file_hash |-> sha256(""),
      version |-> "1.0" ]

(***************************************************************************)
(* pack_bar_file / unpack_bar_file                                         *)
(***************************************************************************)
Raise(exc, msg) ==
    [ exc |-> exc, msg |-> msg, encrypted_data |-> <<>>, metadata |-> <<>>,
      key |-> <<>>, warned |-> FALSE ]

\* The envelope dict before it is signed.
BarStructure_KeyAlways(encrypted_data, metadata, key, password, salt) ==
    LET base == [ metadata |-> metadata, encrypted_data |-> b64encode(encrypted_data),
                  encryption_key |-> b64encode(key) ]
    IN  IF password # <<>>
        THEN Put(Put(base, "encryption_method", "password_derived"), "salt", b64encode(salt))
        ELSE Put(base, "encryption_method", "key_stored")

BarStructure(encrypted_data, metadata, key, password, salt) ==
    LET base == [ metadata |-> metadata, encrypted_data |-> b64encode(encrypted_data) ]
    IN  IF password # <<>>
        THEN Put(Put(base, "encryption_method", "password_derived"), "salt", b64encode(salt))
        ELSE Put(Put(base, "encryption_method", "key_stored"), "encryption_key", b64encode(key))

\* The file bytes: header, then base64 of the JSON text of the signed dict.
BarBytes(bar_structure) ==
    [ header |-> BAR_HEADER, body |-> b64encode(json_dumps(bar_structure)) ]

SignedStructure(bar_structure, key) ==
    Put(bar_structure, "hmac_signature",
        generate_hmac_signature(json_dumps(bar_structure), key))

\* salt = "" stands for salt=None
pack_bar_file(encrypted_data, metadata, key, password, salt) ==
    IF password # <<>> /\ salt = ""
    THEN [ exc |-> "ValueError", msg |-> "Salt is required when password is provided",
           bar_data |-> <<>> ]
    ELSE [ exc |-> "none", msg |-> "",
           bar_data |-> BarBytes(SignedStructure(
                            BarStructure(encrypted_data, metadata, key, password, salt), key)) ]

encrypt_and_pack_with_password(file_data, metadata, password, salt) ==
    LET key == derive_key_from_password(password, salt)
    IN  pack_bar_file(encrypt_file(file_data, key), metadata, key, password, salt).bar_data

\* The HMAC step of unpack_bar_file, once the key is known.
VerifyEnvelope_RefuseUnsigned(bar_structure, key) ==
    IF Has(bar_structure, "hmac_signature")
       /\ verify_hmac_signature(json_dumps(Del(bar_structure, "hmac_signature")),
                                key, bar_structure["hmac_signature"])
    THEN [ exc |-> "none", msg |-> "",
           encrypted_data |-> b64decode(bar_structure["encrypted_data"]),
           metadata |-> bar_structure["metadata"], key |-> key, warned |-> FALSE ]
    ELSE Raise("TamperDetectedException", "BAR file integrity check failed!")

VerifyEnvelope(bar_structure, key) ==
    LET ok(w) == [ exc |-> "none", msg |-> "",
                   encrypted_data |-> b64decode(bar_structure["encrypted_data"]),
                   metadata |-> bar_structure["metadata"], key |-> key, warned |-> w ]
    IN  IF Has(bar_structure, "hmac_signature")
        THEN IF verify_hmac_signature(json_dumps(Del(bar_structure, "hmac_signature")),
                                      key, bar_structure["hmac_signature"])
             THEN ok(FALSE)
             ELSE Raise("TamperDetectedException", "BAR file integrity check failed!")
        ELSE ok(TRUE)

\* The check unpack_bar_file makes before it derives the key.
PasswordHashMismatch_Skipped(metadata, password) == FALSE

PasswordHashMismatch(metadata, password) ==
    Has(metadata, "password_hash") /\ sha256(password) # metadata["password_hash"]

unpack_bar_file(bar_data, password) ==
    IF bar_data.header # BAR_HEADER
    THEN Raise("ValueError", "Invalid BAR file format")
    ELSE IF bar_data.body[1] # "b64"
    THEN \* base64.b64decode / .decode('utf-8') / json.loads of a body that is
         \* not base64 of JSON text: binascii.Error, UnicodeDecodeError or
         \* JSONDecodeError, each a ValueError
         Raise("ValueError", "Incorrect padding")
    ELSE
    LET bar_structure == json_loads(b64decode(bar_data.body)) IN
    IF ~Has(bar_structure, "metadata") \/ ~Has(bar_structure, "encrypted_data")
    THEN Raise("KeyError", "metadata")
    ELSE
    LET metadata == bar_structure["metadata"]
        encryption_method == IF Has(bar_structure, "encryption_method")
                             THEN bar_structure["encryption_method"] ELSE "key_stored"
    IN  IF encryption_method = "password_derived"
        THEN IF password = <<>>
             THEN Raise("ValueError", "Password required for decryption")
             ELSE IF PasswordHashMismatch(metadata, password)
             THEN Raise("ValueError", "Invalid password")
             ELSE IF ~Has(bar_structure, "salt")
             THEN Raise("KeyError", "salt")
             ELSE VerifyEnvelope(bar_structure,
                      derive_key_from_password(password, b64decode(bar_structure["salt"])))
        ELSE IF ~Has(bar_structure, "encryption_key")
             THEN Raise("KeyError", "encryption_key")
             ELSE VerifyEnvelope(bar_structure, b64decode(bar_structure["encryption_key"]))

(***************************************************************************)
(* EncryptionService.create_bar_file / decrypt_bar_file                    *)
(***************************************************************************)
\* in: [file_data, filename, max_views, expiry_minutes, password, view_only,
\*      storage_mode, now, salt, rnd]; salt and rnd are the draws of
\* os.urandom and Fernet.generate_key.
create_bar_file(in) ==
    LET base == IF in.storage_mode = "server"
                THEN create_server_metadata(in.filename, in.max_views, in.expiry_minutes,
                                            in.password # <<>>, in.view_only, in.now)
                ELSE create_client_metadata(in.filename, in.expiry_minutes,
                                            in.password # <<>>, in.view_only, in.now)
        hashed == [base EXCEPT !.file_hash = calculate_file_hash(in.file_data)]
        metadata == IF in.password # <<>>
                    THEN Put(hashed, "password_hash", sha256(in.password))
                    ELSE hashed
        bar_data == IF in.password # <<>>
                    THEN encrypt_and_pack_with_password(in.file_data, metadata, in.password, in.salt)
                    ELSE LET key == generate_key(in.rnd)
                         IN  pack_bar_file(encrypt_file(in.file_data, key), metadata, key,
                                           <<>>, "").bar_data
    IN  [ bar_data |-> bar_data, metadata |-> metadata ]

\* "Password required" in error_msg / "Invalid password" in error_msg
MentionsPasswordRequired(msg) ==
    msg \in {"Password required for decryption", "Password required"}

MentionsInvalidPassword(msg) == msg = "Invalid password"

HttpError(code, detail) ==
    [ exc |-> "HTTPException", status_code |-> code, detail |-> detail,
      decrypted_data |-> "", metadata |-> <<>>, key |-> <<>> ]

\* Which password decrypt_bar_file hands to unpack_bar_file.
ServicePassword(password) == Strip(password)

decrypt_bar_file(bar_data, password) ==
    LET password_to_use == ServicePassword(password)
        u == unpack_bar_file(bar_data, password_to_use)
    IN  IF u.exc = "ValueError"
        THEN IF MentionsPasswordRequired(u.msg) THEN HttpError(403, "Password required")
             ELSE IF MentionsInvalidPassword(u.msg) THEN HttpError(403, "Invalid password")
             ELSE HttpError(403, "Decryption failed")
        ELSE IF u.exc = "TamperDetectedException"
        THEN HttpError(403, "File integrity check failed - possible tampering")
        ELSE IF u.exc # "none"
        THEN [ exc |-> u.exc, status_code |-> 0, detail |-> u.msg,
               decrypted_data |-> "", metadata |-> <<>>, key |-> <<>> ]
        ELSE
        LET d == decrypt_file(u.encrypted_data, u.key) IN
        IF d.status # "ok"
        THEN HttpError(500, "Decryption failed - invalid key or corrupted file")
        ELSE IF calculate_file_hash(d.data) # u.metadata["file_hash"]
        THEN HttpError(500, "File integrity check failed - possible tampering")
        ELSE [ exc |-> "none", status_code |-> 200, detail |-> "",
               decrypted_data |-> d.data, metadata |-> u.metadata, key |-> u.key ]

(***************************************************************************)
(* A holder of the container changes one element of the envelope and       *)
(* re-encodes it (the outer base64 and the header stay well-formed).       *)
(***************************************************************************)
EnvelopeOf(bar_data) == json_loads(b64decode(bar_data.body))

OtherOf(x, a, b) == IF x = a THEN b ELSE a

MetaTamperFields ==
    {"filename", "expires_at", "max_views", "password_protected", "file_hash", "password_hash"}

TamperKinds ==
    {<<"metadata", f>> : f \in MetaTamperFields}
    \cup {<<"encrypted_data", "value">>, <<"encryption_method", "value">>,
          <<"salt", "value">>, <<"encryption_key", "value">>,
          <<"hmac_signature", "value">>, <<"hmac_signature", "name">>}

TamperApplies(st, kind) ==
    IF kind[1] = "metadata" THEN Has(st["metadata"], kind[2]) ELSE Has(st, kind[1])

ForgedMetaValue(md, f) ==
    CASE f = "filename" -> "evil.txt"
      [] f = "expires_at" -> md[f] + 1000
      [] f = "max_views" -> md[f] + 1
      [] f = "password_protected" -> ~md[f]
      [] f = "file_hash" -> sha256("forged")
      [] f = "password_hash" -> sha256(OtherOf(md[f][2], PwA, PwB))

ForgedValue(st, k) ==
    CASE k = "encrypted_data" ->
             b64encode(encrypt_file("forged", b64decode(st[k])[2]))
      [] k = "encryption_method" -> OtherOf(st[k], "password_derived", "key_stored")
      [] k = "salt" -> b64encode(OtherOf(b64decode(st[k]), "salt1", "salt2"))
      [] k = "encryption_key" ->
             b64encode(generate_key(OtherOf(b64decode(st[k])[2], "key1", "key2")))
      [] k = "hmac_signature" -> generate_hmac_signature(json_dumps(st), st[k][2])

TamperedStructure(st, kind) ==
    IF kind[1] = "metadata"
    THEN [st EXCEPT !["metadata"] =
             [st["metadata"] EXCEPT ![kind[2]] = ForgedMetaValue(st["metadata"], kind[2])]]
    ELSE IF kind[2] = "name"
    THEN Put(Del(st, kind[1]), "hmac_signaturf", st[kind[1]])
    ELSE [st EXCEPT ![kind[1]] = ForgedValue(st, kind[1])]

Tampered(bar_data, kind) == BarBytes(TamperedStructure(EnvelopeOf(bar_data), kind))

(***************************************************************************)
(* Server and guard state: shapes and the idle values                      *)
(***************************************************************************)
NumProcs == 2

Procs == 1..NumProcs

GuardKeys == {"ip:token", "ip:file_token"}

\* "no row": what fetchone() gives when nothing matches
NoRecord ==
    [ present |-> FALSE, max_views |-> 0, current_views |-> 0, destroyed |-> FALSE,
      expires_at |-> NoExpiry, created_at |-> 0, require_otp |-> FALSE ]

\* "token not in self.otp_storage"
NoOtpSession ==
    [ present |-> FALSE, otp_hash |-> "", expires_at |-> 0, attempts |-> 0,
      verified |-> FALSE ]

\* A response: status_code 0 while the request is pending or for a bare
\* increment_view_count call, whose tuple is (success, views_remaining,
\* should_destroy).
Response(status_code, detail, success, views_remaining, should_destroy, content) ==
    [ status_code |-> status_code, detail |-> detail, success |-> success,
      views_remaining |-> views_remaining, should_destroy |-> should_destroy,
      content |-> content ]

HttpResult(status_code, detail) == Response(status_code, detail, FALSE, 0, FALSE, "")

Pending == HttpResult(0, "")

FreshLocal ==
    [ op |-> "none", password |-> <<>>, file_record |-> NoRecord, file_seen |-> FALSE,
      checked_at |-> 0, current_views |-> 0, max_views |-> 0, decrypted_data |-> "",
      file_at_end |-> FALSE, res |-> Pending ]

NoAttempts == [k \in GuardKeys |-> <<>>]

ServerIdle ==
    /\ row = NoRecord
    /\ otp_storage = NoOtpSession
    /\ fileOnDisk = FALSE
    /\ pc = [p \in Procs |-> "idle"]
    /\ loc = [p \in Procs |-> FreshLocal]
    /\ sweepPc = "idle"
    /\ sweepHit = FALSE
    /\ sweeps = 0

GuardIdle ==
    /\ password_attempts = NoAttempts
    /\ rate_limit_storage = <<>>

(***************************************************************************)
(* The codec as a state machine: Seal, optionally tamper, Open.            *)
(***************************************************************************)
MaxViews == 2
ExpiryChoices == {0, 30}

SealInputs ==
    [ file_data : Plaintexts, filename : Filenames, max_views : 1..MaxViews,
      expiry_minutes : ExpiryChoices, password : SealPasswords, view_only : BOOLEAN,
      storage_mode : StorageModes, now : {0}, salt : Salts, rnd : RandomKeys ]

NoSeal == [ bar_data |-> <<>>, metadata |-> <<>> ]
NoOpen == [ password |-> <<>>, via |-> "none" ]
NoResult ==
    [ exc |-> "unset", status_code |-> 0, detail |-> "", decrypted_data |-> "",
      metadata |-> <<>> ]

InitCodec ==
    /\ codecStage = "input"
    /\ sealInput \in SealInputs
    /\ sealed = NoSeal
    /\ envelope = <<>>
    /\ tamper = <<"none", "none">>
    /\ openInput = NoOpen
    /\ openResult = NoResult
    /\ backend = "sqlite"
    /\ now = 0
    /\ ServerIdle
    /\ GuardIdle
    /\ results = <<>>

\* POST /seal: SealRequest validation, then create_bar_file.
Seal ==
    /\ codecStage = "input"
    /\ validate_max_views(sealInput.max_views)
    /\ validate_password_strength(sealInput.password)
    /\ sealed' = create_bar_file(sealInput)
    /\ envelope' = sealed'.bar_data
    /\ codecStage' = "sealed"
    /\ UNCHANGED <<sealInput, tamper, openInput, openResult>>
    /\ UNCHANGED <<serverVars, guardVars, now, results>>

TamperEnvelope(kind) ==
    /\ codecStage = "sealed"
    /\ TamperApplies(EnvelopeOf(envelope), kind)
    /\ envelope' = Tampered(envelope, kind)
    /\ tamper' = kind
    /\ codecStage' = "tampered"
    /\ UNCHANGED <<sealInput, sealed, openInput, openResult>>
    /\ UNCHANGED <<serverVars, guardVars, now, results>>

\* What the caller of unpack_bar_file alone gets (no decryption).
UnpackResult(u) ==
    [ exc |-> u.exc, status_code |-> 0, detail |-> u.msg, decrypted_data |-> "",
      metadata |-> u.metadata ]

ServiceResult(r) ==
    [ exc |-> r.exc, status_code |-> r.status_code, detail |-> r.detail,
      decrypted_data |-> r.decrypted_data, metadata |-> r.metadata ]

Open(password, via) ==
    /\ codecStage \in {"sealed", "tampered"}
    /\ openInput' = [ password |-> password, via |-> via ]
    /\ openResult' = IF via = "service"
                     THEN ServiceResult(decrypt_bar_file(envelope, password))
                     ELSE UnpackResult(unpack_bar_file(envelope, password))
    /\ codecStage' = "opened"
    /\ UNCHANGED <<sealInput, sealed, envelope, tamper>>
    /\ UNCHANGED <<serverVars, guardVars, now, results>>

NextCodec ==
    \/ Seal
    \/ \E kind \in TamperKinds : TamperEnvelope(kind)
    \/ \E password \in CandidatePasswords, via \in {"service", "unpack"} : Open(password, via)

SpecCodec == InitCodec /\ [][NextCodec]_vars

(***************************************************************************)
(* Codec claims                                                            *)
(***************************************************************************)
TamperDetail == "File integrity check failed - possible tampering"

\* The error class of an Open result, in the words of the specification.
OutcomeOf(r) ==
    IF r.exc = "none" THEN "Ok"
    ELSE IF r.exc = "TamperDetectedException" THEN "TamperDetected"
    ELSE IF r.exc = "HTTPException" /\ r.status_code = 403 /\ r.detail = TamperDetail
    THEN "TamperDetected"
    ELSE IF r.exc \in {"ValueError", "HTTPException"} /\ MentionsInvalidPassword(r.detail)
    THEN "InvalidCredential"
    ELSE IF r.exc \in {"ValueError", "HTTPException"} /\ MentionsPasswordRequired(r.detail)
    THEN "PasswordRequired"
    ELSE IF r.exc = "HTTPException" /\ r.status_code = 500 /\ r.detail = TamperDetail
    THEN "IntegrityMismatch"
    ELSE IF r.exc = "ValueError" /\ r.detail = "Invalid BAR file format" THEN "FormatError"
    ELSE IF r.exc = "HTTPException" THEN "DecryptionFailed"
    ELSE "Other"

\* The password unpack_bar_file receives in the last Open.
EffectivePassword ==
    IF openInput.via = "service" THEN ServicePassword(openInput.password)
    ELSE openInput.password

OpenedUntampered == codecStage = "opened" /\ tamper[1] = "none"

C8_TamperDetected ==
    (/\ codecStage = "opened"
     /\ tamper[1] # "none"
     /\ EffectivePassword = sealInput.password)
    => OutcomeOf(openResult) = "TamperDetected"

\* C9: Open(Seal(P, M, pw), pw) through decrypt_bar_file succeeds and returns
\* P and the sealed metadata.
C9_RoundTrip ==
    (/\ OpenedUntampered
     /\ openInput.via = "service"
     /\ openInput.password = sealInput.password)
    => (/\ OutcomeOf(openResult) = "Ok"
        /\ openResult.decrypted_data = sealInput.file_data
        /\ openResult.metadata = sealed.metadata)

(***************************************************************************)
(* database.py: the statements on the bar_files row                        *)
(***************************************************************************)
\* INSERT: current_views 0, max_views / expires_at / created_at from metadata
create_file_record(metadata) ==
    [ present |-> TRUE,
      max_views |-> IF Has(metadata, "max_views") THEN metadata["max_views"] ELSE 1,
      current_views |-> 0,
      destroyed |-> FALSE,
      expires_at |-> metadata["expires_at"],
      created_at |-> metadata["created_at"],
      require_otp |-> FALSE ]

\* SealRequest.require_otp: False unless the request sets it
RequireOtp(in) == IF "require_otp" \in DOMAIN in THEN in.require_otp ELSE FALSE

\* SELECT * ... WHERE token = ? AND destroyed = 0
get_file_record(r) == IF r.present /\ ~r.destroyed THEN r ELSE NoRecord

UpdateCurrentViews_Unfiltered(r) ==
    IF r.present THEN [r EXCEPT !.current_views = @ + 1] ELSE r

\* UPDATE ... SET current_views = current_views + 1 WHERE token = ? AND destroyed = 0
UpdateCurrentViews(r) ==
    IF r.present /\ ~r.destroyed THEN [r EXCEPT !.current_views = @ + 1] ELSE r

\* The UPDATE matched a row (what RETURNING yields on PostgreSQL).
UpdateMatches(r) == r.present /\ ~r.destroyed

\* UPDATE ... SET destroyed = 1 WHERE token = ?
mark_as_destroyed(r) == IF r.present THEN [r EXCEPT !.destroyed = TRUE] ELSE r

ViewsRemaining(current_views, max_views) ==
    IF max_views - current_views > 0 THEN max_views - current_views ELSE 0

ShouldDestroy_Strict(current_views, max_views) == current_views > max_views

ShouldDestroy(current_views, max_views) == current_views >= max_views

get_expired_files_Never(r, t) == FALSE

\* WHERE expires_at IS NOT NULL AND expires_at < now AND destroyed = 0
get_expired_files(r, t) ==
    r.present /\ r.expires_at # NoExpiry /\ r.expires_at < t /\ ~r.destroyed

\* WHERE current_views >= max_views AND destroyed = 0
get_exhausted_files(r) == r.present /\ r.current_views >= r.max_views /\ ~r.destroyed

MinutesPerDay == 1440
RetentionDays == 7

\* DELETE ... WHERE destroyed = 1 AND created_at < now - days
cleanup_old_records(r, t, days) ==
    IF r.present /\ r.destroyed /\ r.created_at < t - days * MinutesPerDay
    THEN NoRecord ELSE r

(***************************************************************************)
(* security.py: the credential guard and the rate limiter                  *)
(***************************************************************************)
MAX_PASSWORD_ATTEMPTS == 5
LOCKOUT_DURATION_MINUTES == 60
UploadRateLimit == 20

RecentAttempts_KeepAll(attempts, t) == attempts

\* The attempts of one key that are younger than the lockout window.
RecentAttempts(attempts, t) ==
    LET Recent(a) == a.timestamp > t - LOCKOUT_DURATION_MINUTES
    IN SelectSeq(attempts, Recent)

FailedAttempts(attempts) ==
    LET Failed(a) == ~a.success
    IN SelectSeq(attempts, Failed)

check_password_brute_force_Lenient(attempts, t) ==
    LET kept == RecentAttempts(attempts, t)
        failed == Len(FailedAttempts(kept))
    IN [ locked |-> failed > MAX_PASSWORD_ATTEMPTS, failed_count |-> failed,
         attempts |-> kept ]

\* check_password_brute_force: prunes the list, raises 429 when locked out.
check_password_brute_force(attempts, t) ==
    LET kept == RecentAttempts(attempts, t)
        failed == Len(FailedAttempts(kept))
    IN [ locked |-> failed >= MAX_PASSWORD_ATTEMPTS, failed_count |-> failed,
         attempts |-> kept ]

record_password_attempt_KeepAll(attempts, success, t) ==
    Append(attempts, [timestamp |-> t, success |-> success])

record_password_attempt(attempts, success, t) ==
    LET added == Append(attempts, [timestamp |-> t, success |-> success])
        Succeeded(a) == a.success
    IN IF success THEN SelectSeq(added, Succeeded) ELSE added

\* check_rate_limit: prunes entries older than a minute, raises 429 at the limit.
check_rate_limit(storage, t, limit) ==
    LET Recent(ts) == ts > t - 1
        kept == SelectSeq(storage, Recent)
    IN IF Len(kept) >= limit
       THEN [ limited |-> TRUE, storage |-> kept ]
       ELSE [ limited |-> FALSE, storage |-> Append(kept, t) ]

LockoutDetail == "Too many failed password attempts"
NotFoundDetail == "File not found or already destroyed"
ExhaustedDetail == "Maximum views reached"
ExpiredDetail == "File has expired"

(***************************************************************************)
(* app.py share_file: the synchronous checks between get_file_record and   *)
(* the first await that follows them.  The result says where the request   *)
(* goes next and what it answers if it stops here.                         *)
(***************************************************************************)
Checked(next, res, attempts, decrypted_data) ==
    [ next |-> next, res |-> res, attempts |-> attempts,
      decrypted_data |-> decrypted_data ]

\* "Validate password if protected": guard, then presence, then hash.
ShareCredentialCheck(metadata, password, t, attempts) ==
    IF ~(Has(metadata, "password_protected") /\ metadata["password_protected"])
    THEN Checked("go", Pending, attempts, "")
    ELSE LET g == check_password_brute_force(attempts, t)
         IN IF g.locked
            THEN Checked("done", HttpResult(429, LockoutDetail), g.attempts, "")
            ELSE IF Strip(password) = <<>>
            THEN Checked("done", HttpResult(403, "Password required"),
                         record_password_attempt(g.attempts, FALSE, t), "")
            ELSE IF Has(metadata, "password_hash")
            THEN IF sha256(Strip(password)) # metadata["password_hash"]
                 THEN Checked("done", HttpResult(403, "Invalid password"),
                              record_password_attempt(g.attempts, FALSE, t), "")
                 ELSE Checked("go", Pending,
                              record_password_attempt(g.attempts, TRUE, t), "")
            ELSE Checked("go", Pending, g.attempts, "")

(***************************************************************************)
(* otp_service.py: the OTP session of a token, and the methods the class   *)
(* OTPService defines.                                                     *)
(***************************************************************************)
OTP_EXPIRY_MINUTES == 10
MAX_OTP_ATTEMPTS == 3

TwoFactorDetail == "2FA verification required"

\* create_otp_session: the stored hash of a fresh code, no attempt, not verified
create_otp_session(otp_code, t) ==
    [ present |-> TRUE, otp_hash |-> sha256(otp_code), expires_at |-> t + OTP_EXPIRY_MINUTES,
      attempts |-> 0, verified |-> FALSE ]

\* what verify_otp returns, with the session as it leaves it; compared says
\* whether the code was hashed and compared with the stored hash
OtpVerdict(is_valid, error_msg, compared, session) ==
    [ is_valid |-> is_valid, error_msg |-> error_msg, compared |-> compared,
      session |-> session ]

verify_otp_NoCap(session, otp_code, t) ==
    IF ~session.present
    THEN OtpVerdict(FALSE, "OTP session not found", FALSE, session)
    ELSE IF session.verified
    THEN OtpVerdict(FALSE, "OTP already used", FALSE, session)
    ELSE IF t > session.expires_at
    THEN OtpVerdict(FALSE, "OTP has expired", FALSE, NoOtpSession)
    ELSE LET counted == [session EXCEPT !.attempts = @ + 1]
         IN  IF sha256(otp_code) = counted.otp_hash
             THEN OtpVerdict(TRUE, "", TRUE, [counted EXCEPT !.verified = TRUE])
             ELSE OtpVerdict(FALSE, "Invalid OTP code", TRUE, counted)

verify_otp(session, otp_code, t) ==
    IF ~session.present
    THEN OtpVerdict(FALSE, "OTP session not found", FALSE, session)
    ELSE IF session.verified
    THEN OtpVerdict(FALSE, "OTP already used", FALSE, session)
    ELSE IF t > session.expires_at
    THEN OtpVerdict(FALSE, "OTP has expired", FALSE, NoOtpSession)
    ELSE IF session.attempts >= MAX_OTP_ATTEMPTS
    THEN OtpVerdict(FALSE, "Maximum OTP attempts exceeded", FALSE, NoOtpSession)
    ELSE LET counted == [session EXCEPT !.attempts = @ + 1]
         IN  IF sha256(otp_code) = counted.otp_hash
             THEN OtpVerdict(TRUE, "", TRUE, [counted EXCEPT !.verified = TRUE])
             ELSE OtpVerdict(FALSE, "Invalid OTP code", TRUE, counted)

is_verified(session) == session.present /\ session.verified

\* the methods of class OTPService
OTPServiceMethods ==
    { "generate_otp", "create_otp_session", "verify_otp", "is_verified",
      "cleanup_expired_otps", "send_otp_email" }

\* otp_srv.clear_verification(token): the attribute lookup on the OTPService
\* instance; the class defines no method of this name, so the call raises.
clear_verification(session) ==
    IF "clear_verification" \in OTPServiceMethods
    THEN [ exc |-> "none", session |-> NoOtpSession ]
    ELSE [ exc |-> "AttributeError", session |-> session ]

ShareChecks(file_record, exists, bar_data, password, t, attempts) ==
    IF ~file_record.present
    THEN Checked("done", HttpResult(404, NotFoundDetail), attempts, "")
    ELSE IF ~exists
    THEN Checked("mark_missing", Pending, attempts, "")
    ELSE
    LET u == unpack_bar_file(bar_data, Strip(password))
    IN  IF u.exc = "ValueError"
        THEN Checked("done", HttpResult(403, u.msg), attempts, "")
        ELSE IF u.exc # "none"
        THEN Checked("done", HttpResult(500, "Access failed"), attempts, "")
        ELSE
        LET c == ShareCredentialCheck(u.metadata, password, t, attempts)
            d == decrypt_file(u.encrypted_data, u.key)
        IN  IF c.next = "done" THEN c
            ELSE IF file_record.current_views >= file_record.max_views
            THEN Checked("done", HttpResult(403, ExhaustedDetail), c.attempts, "")
            ELSE IF file_record.expires_at # NoExpiry /\ t > file_record.expires_at
            THEN Checked("done", HttpResult(403, ExpiredDetail), c.attempts, "")
            ELSE IF d.status # "ok"
            THEN Checked("done", HttpResult(500, "Decryption failed"), c.attempts, "")
            ELSE IF ~Has(u.metadata, "file_hash")
                    \/ calculate_file_hash(d.data) # u.metadata["file_hash"]
            THEN Checked("done", HttpResult(500, "File integrity check failed"),
                         c.attempts, "")
            ELSE Checked("inc_update", Pending, c.attempts, d.data)

(***************************************************************************)
(* The server as a state machine.  Every action is one database statement  *)
(* (or one await) together with the synchronous code that runs before the  *)
(* next await; the requests of different clients and the sweep interleave  *)
(* at these points.                                                        *)
(***************************************************************************)
MaxRequests == 3
MaxSweeps == 1

\* The instants the clock visits.  Server: sealing time, past the 30 minute
\* expiry, past the retention of destroyed records.  Client: sealing time,
\* past the expiry, past the lockout window counted from either.
ServerInstants == {0, 31, 10112}
ClientInstants == {0, 31, 62, 93}

\* Guard called directly: within the window, and exactly one window after the
\* first instant.
GuardInstants == {0, 30, 60}

Instants ==
    IF codecStage = "stored" THEN ServerInstants
    ELSE IF codecStage = "guarding" THEN GuardInstants
    ELSE ClientInstants

\* What a client may send: nothing, the sealing password, a wrong one.  A
\* container without password ignores the field.
RequestPasswords ==
    IF codecStage = "stored" /\ sealInput.password # <<>> THEN {<<>>, PwA, PwB} ELSE {<<>>}

\* The slot a new request runs in: the lowest one that is free.
FreeSlot(p) == pc[p] = "idle" /\ \A q \in Procs : q < p => pc[q] # "idle"

ServerSealInputs ==
    [ file_data : {"hello"}, filename : Filenames, max_views : 1..MaxViews,
      expiry_minutes : ExpiryChoices, password : {<<>>, PwA}, view_only : {FALSE},
      storage_mode : {"server"}, now : {0}, salt : {"salt1"}, rnd : {"key1"} ]

\* The calls of the OTP routes are bounded on their own.
OtpOps == {"request_otp", "verify_otp"}

OtpCalls == Cardinality({i \in DOMAIN results : results[i].op \in OtpOps})

Started == (Len(results) - OtpCalls) + Cardinality({p \in Procs : pc[p] # "idle"})

InitServer ==
    /\ codecStage = "empty"
    /\ sealInput = <<>>
    /\ sealed = NoSeal
    /\ envelope = <<>>
    /\ tamper = <<"none", "none">>
    /\ openInput = NoOpen
    /\ openResult = NoResult
    /\ backend \in {"sqlite", "postgres"}
    /\ now = 0
    /\ ServerIdle
    /\ GuardIdle
    /\ results = <<>>

\* POST /seal with storage_mode = server: create_bar_file, then
\* create_server_side_file stores the file under the token and inserts the row.
SealServer(in) ==
    /\ codecStage = "empty"
    /\ validate_max_views(in.max_views)
    /\ validate_password_strength(in.password)
    /\ sealInput' = in
    /\ sealed' = create_bar_file(in)
    /\ envelope' = sealed'.bar_data
    /\ fileOnDisk' = TRUE
    /\ row' = [create_file_record(sealed'.metadata) EXCEPT !.require_otp = RequireOtp(in)]
    /\ codecStage' = "stored"
    /\ UNCHANGED <<tamper, openInput, openResult, backend, otp_storage, now, pc, loc, sweepPc,
                   sweepHit, sweeps, guardVars, results>>

\* A request ends: its locals and its response go to the history, with the
\* presence of the stored file as its last step found it.
Finish(p, l, res) ==
    /\ pc' = [pc EXCEPT ![p] = "idle"]
    /\ loc' = [loc EXCEPT ![p] = FreshLocal]
    /\ results' = Append(results, [l EXCEPT !.res = res, !.file_at_end = fileOnDisk])

\* share_file, first await: get_file_record.
ShareFetch(p, password) ==
    /\ codecStage = "stored"
    /\ FreeSlot(p)
    /\ Started < MaxRequests
    /\ loc' = [loc EXCEPT ![p] = [FreshLocal EXCEPT !.op = "share",
                                                    !.password = password,
                                                    !.file_record = get_file_record(row)]]
    /\ pc' = [pc EXCEPT ![p] = "fetched"]
    /\ UNCHANGED <<codecVars, backend, otp_storage, now, row, fileOnDisk, sweepPc, sweepHit, sweeps,
                   guardVars, results>>

\* share_file from the return of get_file_record to the next await.
ShareValidate(p) ==
    /\ pc[p] = "fetched"
    /\ LET l == [loc[p] EXCEPT !.file_seen = fileOnDisk, !.checked_at = now]
           c == IF l.file_record.present /\ l.file_record.require_otp
                      /\ ~is_verified(otp_storage)
                THEN Checked("done", HttpResult(403, TwoFactorDetail),
                             password_attempts["ip:token"], "")
                ELSE ShareChecks(l.file_record, fileOnDisk, envelope, l.password, now,
                                 password_attempts["ip:token"])
       IN /\ password_attempts' = [password_attempts EXCEPT !["ip:token"] = c.attempts]
          /\ IF c.next = "done"
             THEN Finish(p, l, c.res)
             ELSE /\ pc' = [pc EXCEPT ![p] = c.next]
                  /\ loc' = [loc EXCEPT ![p] = [l EXCEPT !.decrypted_data = c.decrypted_data]]
                  /\ UNCHANGED results
    /\ UNCHANGED <<codecVars, backend, otp_storage, now, row, fileOnDisk, sweepPc, sweepHit, sweeps,
                   rate_limit_storage>>

\* share_file when the stored file is gone: mark_as_destroyed, then 404.
ShareMarkMissing(p) ==
    /\ pc[p] = "mark_missing"
    /\ row' = mark_as_destroyed(row)
    /\ Finish(p, loc[p], HttpResult(404, NotFoundDetail))
    /\ UNCHANGED <<codecVars, backend, otp_storage, now, fileOnDisk, sweepPc, sweepHit, sweeps,
                   guardVars>>

\* A caller other than share_file invokes Database.increment_view_count.
IncCall(p) ==
    /\ codecStage = "stored"
    /\ FreeSlot(p)
    /\ Started < MaxRequests
    /\ loc' = [loc EXCEPT ![p] = [FreshLocal EXCEPT !.op = "inc",
                                                    !.file_record = row,
                                                    !.checked_at = now]]
    /\ pc' = [pc EXCEPT ![p] = "inc_update"]
    /\ UNCHANGED <<codecVars, backend, otp_storage, now, row, fileOnDisk, sweepPc, sweepHit, sweeps,
                   guardVars, results>>

\* increment_view_count has returned (success, views_remaining,
\* should_destroy): the caller runs on without an await.  share_file answers
\* 500 on failure; for a record with require_otp it then calls
\* clear_verification, and an exception of that call is answered 500 by the
\* handler's "except Exception"; else it erases the file if should_destroy
\* and returns the plaintext.
Returned(p, l, success, views_remaining, should_destroy) ==
    IF l.op = "inc"
    THEN /\ Finish(p, l, Response(0, "", success, views_remaining, should_destroy, ""))
         /\ UNCHANGED fileOnDisk
    ELSE IF ~success
    THEN /\ Finish(p, l, HttpResult(500, "Failed to update view count"))
         /\ UNCHANGED fileOnDisk
    ELSE IF l.file_record.require_otp /\ clear_verification(otp_storage).exc # "none"
    THEN /\ Finish(p, l, HttpResult(500, "Access failed"))
         /\ UNCHANGED fileOnDisk
    ELSE /\ fileOnDisk' = (fileOnDisk /\ ~should_destroy)
         /\ Finish(p, l, Response(200, "", TRUE, views_remaining, should_destroy,
                                  l.decrypted_data))

\* increment_view_count once it holds current_views and max_views.
AfterRead(p, current_views, max_views) ==
    LET l == [loc[p] EXCEPT !.current_views = current_views, !.max_views = max_views]
    IN IF ShouldDestroy(current_views, max_views)
       THEN /\ pc' = [pc EXCEPT ![p] = "inc_mark"]
            /\ loc' = [loc EXCEPT ![p] = l]
            /\ UNCHANGED <<results, fileOnDisk>>
       ELSE Returned(p, l, TRUE, ViewsRemaining(current_views, max_views), FALSE)

\* increment_view_count: the UPDATE (with RETURNING on PostgreSQL).
IncUpdate(p) ==
    /\ pc[p] = "inc_update"
    /\ row' = UpdateCurrentViews(row)
    /\ IF backend = "postgres"
       THEN IF ~UpdateMatches(row)
            THEN Returned(p, loc[p], FALSE, 0, FALSE)
            ELSE AfterRead(p, row'.current_views, row'.max_views)
       ELSE /\ pc' = [pc EXCEPT ![p] = "inc_select"]
            /\ UNCHANGED <<loc, results, fileOnDisk>>
    /\ UNCHANGED <<codecVars, backend, otp_storage, now, sweepPc, sweepHit, sweeps, guardVars>>

\* increment_view_count on SQLite: the SELECT after the committed UPDATE.
IncSelect(p) ==
    /\ pc[p] = "inc_select"
    /\ IF ~row.present
       THEN Returned(p, loc[p], FALSE, 0, FALSE)
       ELSE AfterRead(p, row.current_views, row.max_views)
    /\ UNCHANGED <<codecVars, backend, otp_storage, now, row, sweepPc, sweepHit, sweeps, guardVars>>

\* increment_view_count: mark_as_destroyed when the limit was reached.
IncMark(p) ==
    /\ pc[p] = "inc_mark"
    /\ row' = mark_as_destroyed(row)
    /\ Returned(p, loc[p], TRUE,
                ViewsRemaining(loc[p].current_views, loc[p].max_views), TRUE)
    /\ UNCHANGED <<codecVars, backend, otp_storage, now, sweepPc, sweepHit, sweeps, guardVars>>

(***************************************************************************)
(* services/cleanup.py cleanup_expired_bar_files, statement by statement   *)
(***************************************************************************)
requestVars == <<pc, loc, results>>

\* get_expired_files
SweepQueryExpired ==
    /\ codecStage = "stored"
    /\ sweepPc = "idle"
    /\ sweeps < MaxSweeps
    /\ sweeps' = sweeps + 1
    /\ sweepHit' = get_expired_files(row, now)
    /\ sweepPc' = "expired_listed"
    /\ UNCHANGED <<codecVars, backend, otp_storage, now, row, fileOnDisk, requestVars, guardVars>>

\* the loop body up to "await mark_as_destroyed": erase the file if it exists
SweepEraseExpired ==
    /\ sweepPc = "expired_listed"
    /\ fileOnDisk' = (fileOnDisk /\ ~sweepHit)
    /\ sweepPc' = IF sweepHit THEN "expired_mark" ELSE "exhausted_query"
    /\ UNCHANGED <<codecVars, backend, otp_storage, now, row, sweepHit, sweeps, requestVars, guardVars>>

SweepMarkExpired ==
    /\ sweepPc = "expired_mark"
    /\ row' = mark_as_destroyed(row)
    /\ sweepPc' = "exhausted_query"
    /\ UNCHANGED <<codecVars, backend, otp_storage, now, fileOnDisk, sweepHit, sweeps, requestVars,
                   guardVars>>

\* get_exhausted_files
SweepQueryExhausted ==
    /\ sweepPc = "exhausted_query"
    /\ sweepHit' = get_exhausted_files(row)
    /\ sweepPc' = "exhausted_listed"
    /\ UNCHANGED <<codecVars, backend, otp_storage, now, row, fileOnDisk, sweeps, requestVars,
                   guardVars>>

SweepEraseExhausted ==
    /\ sweepPc = "exhausted_listed"
    /\ fileOnDisk' = (fileOnDisk /\ ~sweepHit)
    /\ sweepPc' = IF sweepHit THEN "exhausted_mark" ELSE "cleanup_old"
    /\ UNCHANGED <<codecVars, backend, otp_storage, now, row, sweepHit, sweeps, requestVars, guardVars>>

SweepMarkExhausted ==
    /\ sweepPc = "exhausted_mark"
    /\ row' = mark_as_destroyed(row)
    /\ sweepPc' = "cleanup_old"
    /\ UNCHANGED <<codecVars, backend, otp_storage, now, fileOnDisk, sweepHit, sweeps, requestVars,
                   guardVars>>

\* cleanup_old_records(days=7)
SweepCleanupOld ==
    /\ sweepPc = "cleanup_old"
    /\ row' = cleanup_old_records(row, now, RetentionDays)
    /\ sweepPc' = "idle"
    /\ sweepHit' = FALSE
    /\ UNCHANGED <<codecVars, backend, otp_storage, now, fileOnDisk, sweeps, requestVars, guardVars>>

\* Time passes.
Tick ==
    /\ codecStage \in {"stored", "downloaded", "guarding"}
    /\ now' \in {t \in Instants : t > now}
    /\ UNCHANGED <<codecVars, serverVars, guardVars, results>>

Sweep ==
    \/ SweepQueryExpired
    \/ SweepEraseExpired
    \/ SweepMarkExpired
    \/ SweepQueryExhausted
    \/ SweepEraseExhausted
    \/ SweepMarkExhausted
    \/ SweepCleanupOld

ShareStep(p) ==
    \/ ShareValidate(p)
    \/ ShareMarkMissing(p)

IncStep(p) ==
    \/ IncUpdate(p)
    \/ IncSelect(p)
    \/ IncMark(p)

\* Concurrent redemptions: a request may begin while another is in flight.
Next ==
    \/ \E in \in ServerSealInputs : SealServer(in)
    \/ \E p \in Procs : \E password \in RequestPasswords : ShareFetch(p, password)
    \/ \E p \in Procs : ShareStep(p)
    \/ \E p \in Procs : IncStep(p)
    \/ Sweep
    \/ Tick

Spec == InitServer /\ [][Next]_vars

\* Sequential use: a redemption or a sweep begins only when no other is in
\* flight, so each runs to its end without another one's statements in
\* between; the clock still advances at any point.
NoneInFlight == \A p \in Procs : pc[p] = "idle"

\* cleanup_expired_bar_files run from start to end.
SweepToEnd ==
    /\ codecStage = "stored"
    /\ NoneInFlight
    /\ sweepPc = "idle"
    /\ sweeps < MaxSweeps
    /\ sweeps' = sweeps + 1
    /\ LET expired == get_expired_files(row, now)
           row1 == IF expired THEN mark_as_destroyed(row) ELSE row
           exhausted == get_exhausted_files(row1)
           row2 == IF exhausted THEN mark_as_destroyed(row1) ELSE row1
       IN /\ fileOnDisk' = (fileOnDisk /\ ~expired /\ ~exhausted)
          /\ row' = cleanup_old_records(row2, now, RetentionDays)
    /\ UNCHANGED <<codecVars, backend, otp_storage, now, sweepPc, sweepHit, requestVars, guardVars>>

NextSeq ==
    \/ \E in \in ServerSealInputs : SealServer(in)
    \/ \E p \in Procs : \E password \in RequestPasswords :
          NoneInFlight /\ ShareFetch(p, password)
    \/ \E p \in Procs : ShareValidate(p)
    \/ \E p \in Procs : IncStep(p)
    \/ SweepToEnd
    \/ Tick

SpecSeq == InitServer /\ [][NextSeq]_vars

\* Concurrent callers of Database.increment_view_count alone.
NextInc ==
    \/ \E in \in ServerSealInputs : SealServer(in)
    \/ \E p \in Procs : IncCall(p)
    \/ \E p \in Procs : IncStep(p)
    \/ Sweep
    \/ Tick

SpecInc == InitServer /\ [][NextInc]_vars

(***************************************************************************)
(* Ledger and redemption claims                                            *)
(***************************************************************************)
\* The reason a share_file response reports, in the words of the
\* specification.
ShareOutcome(res) ==
    IF res.status_code = 200 THEN "Ok"
    ELSE IF res.status_code = 404 THEN "NotFound"
    ELSE IF res.status_code = 429 THEN "LockedOut"
    ELSE IF res.status_code = 403 /\ res.detail = ExpiredDetail THEN "Expired"
    ELSE IF res.status_code = 403 /\ res.detail = ExhaustedDetail THEN "Exhausted"
    ELSE IF res.status_code = 403 /\ MentionsPasswordRequired(res.detail)
    THEN "PasswordRequired"
    ELSE IF res.status_code = 403 /\ MentionsInvalidPassword(res.detail)
    THEN "InvalidCredential"
    ELSE "ServerError"

Stored == codecStage = "stored"

IncSuccesses ==
    Cardinality({i \in DOMAIN results : results[i].op = "inc" /\ results[i].res.success})

\* C1: callers of increment_view_count on a record with max_views = 1 and
\* current_views = 0, their statements interleaved in any way: at most one
\* call reports success, two successes never occur.
C1_AtMostOneSuccess ==
    (Stored /\ sealInput.max_views = 1) => IncSuccesses <= 1

\* C2: every ledger record has current_views <= max_views in every reachable
\* state.
C2_ViewsWithinLimit ==
    row.present => row.current_views <= row.max_views

Served ==
    Cardinality({i \in DOMAIN results :
                    results[i].op = "share" /\ results[i].res.status_code = 200})

\* C3: the number of share_file requests that returned the plaintext of a
\* container sealed with max_views = n never exceeds n.
C3_ServedWithinLimit ==
    Stored => Served <= sealInput.max_views

\* What a finished share_file request saw when it made its checks.
SawExpired(r) ==
    r.file_record.expires_at # NoExpiry /\ r.checked_at > r.file_record.expires_at

SawExhausted(r) == r.file_record.current_views >= r.file_record.max_views

SawMissing(r) == ~r.file_record.present \/ ~r.file_seen

SawBadCredential(r) ==
    sealInput.password # <<>> /\ Strip(r.password) # sealInput.password

\* C5: a redemption of a live container past its expires_at is rejected as
\* Expired and returns no plaintext, even when views remain.
C5_ExpiredIsRejectedAsExpired ==
    Stored =>
        \A i \in DOMAIN results :
            (/\ results[i].op = "share"
             /\ ~SawMissing(results[i])
             /\ SawExpired(results[i])
             /\ ~SawExhausted(results[i]))
            => (/\ ShareOutcome(results[i].res) = "Expired"
                /\ results[i].res.content = "")

FailingChecks(r) ==
    (IF SawMissing(r) THEN {"existence"} ELSE {})
    \cup (IF SawExpired(r) THEN {"expiry"} ELSE {})
    \cup (IF SawExhausted(r) THEN {"exhaustion"} ELSE {})
    \cup (IF SawBadCredential(r) THEN {"credential"} ELSE {})

FirstFailing(r) ==
    IF SawMissing(r) THEN {"NotFound"}
    ELSE IF SawExpired(r) THEN {"Expired"}
    ELSE IF SawExhausted(r) THEN {"Exhausted"}
    ELSE {"PasswordRequired", "InvalidCredential"}

\* C6: when several access checks of a redemption fail at once, the reason
\* reported is that of the first failing check in the order existence,
\* expiry, view exhaustion, credential.
C6_FirstFailingCheckWins ==
    Stored =>
        \A i \in DOMAIN results :
            (results[i].op = "share" /\ Cardinality(FailingChecks(results[i])) >= 2)
            => ShareOutcome(results[i].res) \in FirstFailing(results[i])

\* C4: a container sealed with max_views = n, no password and no expiry,
\* redeemed sequentially: the k-th redemption (k <= n) returns the plaintext
\* with views_remaining = n - k and should_destroy = (k = n); every later
\* redemption is rejected as Exhausted or NotFound and returns no plaintext.
C4_SequentialRedemptions ==
    (Stored /\ sealInput.password = <<>> /\ sealInput.expiry_minutes = 0) =>
        \A k \in DOMAIN results :
            IF k <= sealInput.max_views
            THEN /\ results[k].res.status_code = 200
                 /\ results[k].res.content = sealInput.file_data
                 /\ results[k].res.views_remaining = sealInput.max_views - k
                 /\ results[k].res.should_destroy = (k = sealInput.max_views)
            ELSE /\ ShareOutcome(results[k].res) \in {"Exhausted", "NotFound"}
                 /\ results[k].res.content = ""

C4_Witness ==
    /\ Stored
    /\ sealInput.password = <<>>
    /\ sealInput.expiry_minutes = 0
    /\ sealInput.max_views = 2
    /\ Len(results) = 3
    /\ results[2].res.should_destroy
    /\ ShareOutcome(results[3].res) = "NotFound"

(***************************************************************************)
(* Client custody: the holder of a downloaded container posts it to        *)
(* /decrypt-upload (api/routes/decrypt.py).                                *)
(***************************************************************************)
MaxUploads == 6

\* client_storage.validate_client_access: expiry, then presence of a password
validate_client_access(metadata, password, t) ==
    LET expired == metadata["expires_at"] # NoExpiry /\ t > metadata["expires_at"]
        missing == Has(metadata, "password_protected") /\ metadata["password_protected"]
                   /\ password = <<>>
        errors == (IF expired THEN <<ExpiredDetail>> ELSE <<>>)
                  \o (IF missing THEN <<"Password required">> ELSE <<>>)
    IN [ is_valid |-> errors = <<>>, errors |-> errors ]

\* "; ".join(errors)
JoinErrors(errors) ==
    IF Len(errors) = 2 THEN "File has expired; Password required"
    ELSE IF Len(errors) = 1 THEN errors[1]
    ELSE ""

\* client_storage.get_storage_info()["view_limit_enforcement"]
view_limit_enforcement == FALSE

ClientSealInputs ==
    [ file_data : {"hello"}, filename : Filenames, max_views : {1},
      expiry_minutes : ExpiryChoices, password : {<<>>, PwA, PwA \o <<SP>>},
      view_only : {FALSE}, storage_mode : {"client"}, now : {0}, salt : {"salt1"},
      rnd : {"key1"} ]

UploadPasswords ==
    IF codecStage = "downloaded" /\ sealInput.password # <<>>
    THEN {<<>>, sealInput.password, PwB}
    ELSE {<<>>}

InitClient ==
    /\ codecStage = "empty"
    /\ sealInput = <<>>
    /\ sealed = NoSeal
    /\ envelope = <<>>
    /\ tamper = <<"none", "none">>
    /\ openInput = NoOpen
    /\ openResult = NoResult
    /\ backend = "sqlite"
    /\ now = 0
    /\ ServerIdle
    /\ GuardIdle
    /\ results = <<>>

\* POST /seal with storage_mode = client: create_bar_file; the container is
\* handed to the client and no ledger record is written.
SealClient(in) ==
    /\ codecStage = "empty"
    /\ validate_max_views(in.max_views)
    /\ validate_password_strength(in.password)
    /\ sealInput' = in
    /\ sealed' = create_bar_file(in)
    /\ envelope' = sealed'.bar_data
    /\ codecStage' = "downloaded"
    /\ UNCHANGED <<tamper, openInput, openResult, serverVars, guardVars, now, results>>

\* What decrypt_uploaded_bar_file answers and leaves in the guard.
UploadAnswer(res, attempts, storage) ==
    [ res |-> res, attempts |-> attempts, storage |-> storage ]

decrypt_uploaded_bar_file(bar_data, password, t, attempts, storage) ==
    LET rl == check_rate_limit(storage, t, UploadRateLimit)
        g == check_password_brute_force(attempts, t)
        password_to_use == IF Strip(password) # <<>> THEN password ELSE <<>>
        r == decrypt_bar_file(bar_data, password_to_use)
        v == validate_client_access(r.metadata, password_to_use, t)
        protected == Has(r.metadata, "password_protected")
                     /\ r.metadata["password_protected"]
    IN  IF rl.limited
        THEN UploadAnswer(HttpResult(429, "Rate limit exceeded"), attempts, rl.storage)
        ELSE IF g.locked
        THEN UploadAnswer(HttpResult(429, LockoutDetail), g.attempts, rl.storage)
        ELSE IF r.exc = "HTTPException"
        THEN UploadAnswer(HttpResult(r.status_code, r.detail),
                          IF r.status_code = 403
                          THEN record_password_attempt(g.attempts, FALSE, t)
                          ELSE g.attempts,
                          rl.storage)
        ELSE IF r.exc # "none"
        THEN UploadAnswer(HttpResult(500, "Decryption failed"), g.attempts, rl.storage)
        ELSE IF ~v.is_valid
        THEN UploadAnswer(HttpResult(403, JoinErrors(v.errors)),
                          IF protected /\ Len(v.errors) >= 1
                             /\ v.errors[Len(v.errors)] = "Password required"
                          THEN record_password_attempt(g.attempts, FALSE, t)
                          ELSE g.attempts,
                          rl.storage)
        ELSE UploadAnswer(Response(200, "", TRUE, 0, view_limit_enforcement,
                                   r.decrypted_data),
                          IF protected
                          THEN record_password_attempt(g.attempts, TRUE, t)
                          ELSE g.attempts,
                          rl.storage)

\* POST /decrypt-upload
DecryptUpload(password) ==
    /\ codecStage = "downloaded"
    /\ Len(results) < MaxUploads
    /\ LET a == decrypt_uploaded_bar_file(envelope, password, now,
                                          password_attempts["ip:file_token"],
                                          rate_limit_storage)
       IN /\ password_attempts' = [password_attempts EXCEPT !["ip:file_token"] = a.attempts]
          /\ rate_limit_storage' = a.storage
          /\ results' = Append(results, [FreshLocal EXCEPT !.op = "upload",
                                                           !.password = password,
                                                           !.checked_at = now,
                                                           !.res = a.res])
    /\ UNCHANGED <<codecVars, serverVars, now>>

NextClient ==
    \/ \E in \in ClientSealInputs : SealClient(in)
    \/ \E password \in UploadPasswords : DecryptUpload(password)
    \/ Tick

SpecClient == InitClient /\ [][NextClient]_vars

\* C10: a client-custody container without expiry, posted to /decrypt-upload
\* with the sealing password by a client that is not locked out or rate
\* limited, is opened every time, the response reports should_destroy = false,
\* and no redemption touches a ledger record or a stored file.
C10_ClientRedemptionsSucceed ==
    codecStage = "downloaded" =>
        /\ row = NoRecord
        /\ fileOnDisk = FALSE
        /\ \A i \in DOMAIN results :
              (/\ sealInput.expiry_minutes = 0
               /\ results[i].password = sealInput.password
               /\ results[i].res.status_code # 429)
              => (/\ results[i].res.status_code = 200
                  /\ results[i].res.content = sealInput.file_data
                  /\ results[i].res.should_destroy = FALSE)

(***************************************************************************)
(* security.py: the credential guard called directly, for one client and   *)
(* two resources.                                                          *)
(***************************************************************************)
MaxGuardCalls == 6

ClientIp == "ip"
Resources == {"token", "file_token"}

\* key = f"{client_ip}:{resource_id}" if resource_id else client_ip
GuardKey_IdentityOnly(client_ip, resource_id) == client_ip

GuardKey(client_ip, resource_id) ==
    IF resource_id = "token" THEN "ip:token"
    ELSE IF resource_id = "file_token" THEN "ip:file_token"
    ELSE client_ip

\* password_attempts[key] of a defaultdict(list)
AttemptsOf(d, key) == IF Has(d, key) THEN d[key] ELSE <<>>

RECURSIVE Pow2(_)
Pow2(n) == IF n <= 0 THEN 1 ELSE 2 * Pow2(n - 1)

Min(a, b) == IF a < b THEN a ELSE b

DelayCap == 30

get_progressive_delay_Uncapped(failed_attempts) ==
    IF failed_attempts < 1 THEN 0 ELSE Pow2(failed_attempts - 1)

\* get_progressive_delay, in seconds (PROGRESSIVE_DELAY_ENABLED is True)
get_progressive_delay(failed_attempts) ==
    IF failed_attempts < 1 THEN 0 ELSE Min(Pow2(failed_attempts - 1), DelayCap)

\* check_and_delay_password_attempt: the check raises when locked out, else
\* the caller sleeps for the progressive delay and gets the failure count.
check_and_delay_password_attempt(attempts, t) ==
    LET g == check_password_brute_force(attempts, t)
    IN [ locked |-> g.locked, failed_count |-> g.failed_count, attempts |-> g.attempts,
         delay |-> IF ~g.locked /\ g.failed_count > 0
                   THEN get_progressive_delay(g.failed_count) ELSE 0 ]

GuardCall(op, resource_id, success, locked, failed_count, delay) ==
    [ op |-> op, resource_id |-> resource_id, at |-> now, success |-> success,
      locked |-> locked, failed_count |-> failed_count, delay |-> delay ]

InitGuard ==
    /\ codecStage = "guarding"
    /\ sealInput = <<>>
    /\ sealed = NoSeal
    /\ envelope = <<>>
    /\ tamper = <<"none", "none">>
    /\ openInput = NoOpen
    /\ openResult = NoResult
    /\ backend = "sqlite"
    /\ now = 0
    /\ ServerIdle
    /\ GuardIdle
    /\ results = <<>>

\* check_and_delay_password_attempt(client_ip, resource_id)
CheckAndDelay(resource_id) ==
    /\ codecStage = "guarding"
    /\ LET key == GuardKey(ClientIp, resource_id)
           c == check_and_delay_password_attempt(AttemptsOf(password_attempts, key), now)
       IN /\ password_attempts' = Put(password_attempts, key, c.attempts)
          /\ results' = Append(results, GuardCall("check", resource_id, FALSE, c.locked,
                                                  c.failed_count, c.delay))
    /\ UNCHANGED <<codecVars, serverVars, now, rate_limit_storage>>

\* record_password_attempt(client_ip, success, resource_id)
RecordAttempt(resource_id, success) ==
    /\ codecStage = "guarding"
    /\ LET key == GuardKey(ClientIp, resource_id)
       IN password_attempts' =
              Put(password_attempts, key,
                  record_password_attempt(AttemptsOf(password_attempts, key), success, now))
    /\ results' = Append(results, GuardCall("record", resource_id, success, FALSE, 0, 0))
    /\ UNCHANGED <<codecVars, serverVars, now, rate_limit_storage>>

NextGuard ==
    \/ \E r \in Resources : Len(results) < MaxGuardCalls /\ CheckAndDelay(r)
    \/ \E r \in Resources : \E success \in BOOLEAN :
          Len(results) < MaxGuardCalls /\ RecordAttempt(r, success)
    \/ Tick

SpecGuard == InitGuard /\ [][NextGuard]_vars

\* The calls made so far for one resource, as indices into the history.
CallsFor(resource_id) == {i \in DOMAIN results : results[i].resource_id = resource_id}

\* The failures recorded for a resource before call i that are still in the
\* lockout window at that call and were not cleared by a later success.
FailuresBefore(i) ==
    {j \in CallsFor(results[i].resource_id) :
        /\ j < i
        /\ results[j].op = "record"
        /\ ~results[j].success
        /\ results[i].at - results[j].at < LOCKOUT_DURATION_MINUTES
        /\ ~\E m \in CallsFor(results[i].resource_id) :
              j < m /\ m < i /\ results[m].op = "record" /\ results[m].success}

\* C11: once MAX_PASSWORD_ATTEMPTS failures are on record for one (client,
\* resource) within the lockout window, the next check_and_delay_password_attempt
\* for that pair raises 429; with fewer it returns the number of failures.
C11_LockoutAfterMaxFailures ==
    codecStage = "guarding" =>
        \A i \in DOMAIN results :
            results[i].op = "check" =>
                /\ results[i].locked
                       = (Cardinality(FailuresBefore(i)) >= MAX_PASSWORD_ATTEMPTS)
                /\ ~results[i].locked
                       => results[i].failed_count = Cardinality(FailuresBefore(i))

C11_Witness ==
    /\ codecStage = "guarding"
    /\ \E i \in DOMAIN results :
          /\ results[i].op = "check"
          /\ results[i].locked
          /\ Cardinality(FailuresBefore(i)) = MAX_PASSWORD_ATTEMPTS

\* The call for the same resource that precedes call i, or 0.
PreviousCall(i) ==
    LET earlier == {j \in CallsFor(results[i].resource_id) : j < i}
    IN IF earlier = {} THEN 0 ELSE CHOOSE j \in earlier : \A m \in earlier : m <= j

LastCall(resource_id) ==
    LET calls == CallsFor(resource_id)
    IN IF calls = {} THEN 0 ELSE CHOOSE j \in calls : \A m \in calls : m <= j

IsSuccessRecord(i) == i # 0 /\ results[i].op = "record" /\ results[i].success

\* C12: after record_password_attempt(success=True) the failures counted for
\* that (client, resource) are 0, whatever was recorded before, and the next
\* check_and_delay_password_attempt returns 0 without delay.
C12_SuccessClearsFailures ==
    codecStage = "guarding" =>
        /\ \A r \in Resources :
              IsSuccessRecord(LastCall(r)) =>
                  FailedAttempts(AttemptsOf(password_attempts, GuardKey(ClientIp, r))) = <<>>
        /\ \A i \in DOMAIN results :
              (results[i].op = "check" /\ IsSuccessRecord(PreviousCall(i))) =>
                  /\ ~results[i].locked
                  /\ results[i].failed_count = 0
                  /\ results[i].delay = 0

C12_Witness ==
    /\ codecStage = "guarding"
    /\ \E i \in DOMAIN results :
          /\ results[i].op = "check"
          /\ IsSuccessRecord(PreviousCall(i))
          /\ Cardinality(FailuresBefore(PreviousCall(i))) >= 2
          /\ results[i].failed_count = 0

\* What the guard holds for one (client, resource).
HistoryOf(d, resource_id) == AttemptsOf(d, GuardKey(ClientIp, resource_id))

\* A guard call was made in this step; it is the last entry of the history.
GuardCallMade == codecStage = "guarding" /\ Len(results') = Len(results) + 1

\* C14: the guard is keyed per (client, resource): a check or a record for
\* one resource leaves the attempt history of every other resource unchanged,
\* and a check is locked out or delayed only by failures recorded for its own
\* resource.
C14_GuardIsPerResource ==
    [][GuardCallMade =>
          LET call == results'[Len(results')]
          IN /\ \A r \in Resources \ {call.resource_id} :
                   HistoryOf(password_attempts', r) = HistoryOf(password_attempts, r)
             /\ (call.op = "check" /\ (call.locked \/ call.delay > 0))
                   => FailuresBefore(Len(results))' # {}]_vars

C14_Witness ==
    /\ codecStage = "guarding"
    /\ \E i \in DOMAIN results :
          /\ results[i].op = "check"
          /\ results[i].resource_id = "file_token"
          /\ ~results[i].locked
          /\ results[i].delay = 0
          /\ Cardinality({j \in 1..(i-1) : /\ results[j].resource_id = "token"
                                           /\ results[j].op = "record"
                                           /\ ~results[j].success})
                 >= MAX_PASSWORD_ATTEMPTS
          /\ Len(FailedAttempts(HistoryOf(password_attempts, "token")))
                 >= MAX_PASSWORD_ATTEMPTS

(***************************************************************************)
(* The progressive delay, for every number of failures up to MaxFailed     *)
(***************************************************************************)
MaxFailed == 8
MaxDelayCalls == 2

InitDelay ==
    /\ codecStage = "delaying"
    /\ sealInput = <<>>
    /\ sealed = NoSeal
    /\ envelope = <<>>
    /\ tamper = <<"none", "none">>
    /\ openInput = NoOpen
    /\ openResult = NoResult
    /\ backend = "sqlite"
    /\ now = 0
    /\ ServerIdle
    /\ GuardIdle
    /\ results = <<>>

\* get_progressive_delay(failed_attempts)
DelayFor(failed_attempts) ==
    /\ codecStage = "delaying"
    /\ Len(results) < MaxDelayCalls
    /\ results' = Append(results, GuardCall("delay", "token", FALSE, FALSE, failed_attempts,
                                            get_progressive_delay(failed_attempts)))
    /\ UNCHANGED <<codecVars, serverVars, guardVars, now>>

\* check_and_delay_password_attempt for a key that holds f fresh failures
CheckAfterFailures(f) ==
    /\ codecStage = "delaying"
    /\ Len(results) < MaxDelayCalls
    /\ LET attempts == [i \in 1..f |-> [timestamp |-> now, success |-> FALSE]]
           c == check_and_delay_password_attempt(attempts, now)
       IN results' = Append(results, GuardCall("check", "token", FALSE, c.locked,
                                               c.failed_count, c.delay))
    /\ UNCHANGED <<codecVars, serverVars, guardVars, now>>

NextDelay ==
    \/ \E f \in 0..MaxFailed : DelayFor(f)
    \/ \E f \in 0..MaxFailed : CheckAfterFailures(f)

SpecDelay == InitDelay /\ [][NextDelay]_vars

\* The calls in which a delay is computed: get_progressive_delay itself, and
\* the checks that did not raise.
DelayedCalls ==
    {i \in DOMAIN results : results[i].op = "delay"
                            \/ (results[i].op = "check" /\ ~results[i].locked)}

\* C15: the delay before an attempt proceeds is min(2^(f-1), 30) seconds for
\* f >= 1 failures and 0 for f = 0; it does not decrease with f and never
\* exceeds 30.
C15_ProgressiveDelay ==
    codecStage = "delaying" =>
        /\ \A i \in DelayedCalls :
              LET f == results[i].failed_count
              IN /\ results[i].delay
                        = (IF f = 0 THEN 0 ELSE IF 2^(f-1) < 30 THEN 2^(f-1) ELSE 30)
                 /\ results[i].delay <= 30
        /\ \A i, j \in DelayedCalls :
              results[i].failed_count <= results[j].failed_count
                  => results[i].delay <= results[j].delay

C15_Witness ==
    /\ codecStage = "delaying"
    /\ \E i, j \in DOMAIN results :
          /\ results[i].op = "check" /\ ~results[i].locked
          /\ results[i].failed_count = 4 /\ results[i].delay = 8
          /\ results[j].op = "delay"
          /\ results[j].failed_count = 7 /\ results[j].delay = 30

(***************************************************************************)
(* utils/crypto_utils.py secure_delete_file.  The function has no await:   *)
(* it runs from start to end inside one step of the event loop.  A file is *)
(* its presence and its content; fail_at names the statement that raises.  *)
(***************************************************************************)
ErasePasses == 3
MaxErases == 3

File(exists, content) == [ exists |-> exists, content |-> content ]

FailAt(step, k) == [ step |-> step, k |-> k ]

NoFailure == FailAt("none", 0)

\* The statements of the try block that can raise.
FailurePoints ==
    {NoFailure, FailAt("getsize", 0), FailAt("open", 0), FailAt("zero", 0),
     FailAt("remove", 0)}
    \cup {FailAt("pass", k) : k \in 1..ErasePasses}

Erased(raised) == [ exists |-> FALSE, content |-> "", raised |-> raised ]

\* for _ in range(passes): seek, write random bytes, flush, fsync
RECURSIVE RandomPasses(_, _, _, _)
RandomPasses(content, k, passes, fail_at) ==
    IF k > passes THEN [ content |-> content, failed |-> FALSE ]
    ELSE IF fail_at = FailAt("pass", k) THEN [ content |-> "partial", failed |-> TRUE ]
    ELSE RandomPasses("random", k + 1, passes, fail_at)

\* The try block: size, open, random passes, zero pass, os.remove.
TryOverwriteAndRemove(file, passes, fail_at) ==
    IF fail_at.step \in {"getsize", "open"}
    THEN [ content |-> file.content, failed |-> TRUE ]
    ELSE LET r == RandomPasses(file.content, 1, passes, fail_at)
         IN IF r.failed THEN r
            ELSE IF fail_at.step = "zero" THEN [ content |-> "partial", failed |-> TRUE ]
            ELSE IF fail_at.step = "remove" THEN [ content |-> "zeros", failed |-> TRUE ]
            ELSE [ content |-> "", failed |-> FALSE ]

\* The except block: "if os.path.exists(file_path): os.remove(file_path)",
\* then "raise e"; the os.remove of the fallback may itself raise.
FallbackDelete_RaiseOnly(content, fallback_fails) ==
    [ exists |-> TRUE, content |-> content, raised |-> TRUE ]

FallbackDelete(content, fallback_fails) ==
    IF fallback_fails
    THEN [ exists |-> TRUE, content |-> content, raised |-> TRUE ]
    ELSE Erased(TRUE)

secure_delete_file_Unchecked(file, passes, fail_at, fallback_fails) ==
    IF ~file.exists
    THEN [ exists |-> FALSE, content |-> file.content, raised |-> TRUE ]
    ELSE LET t == TryOverwriteAndRemove(file, passes, fail_at)
         IN IF t.failed THEN FallbackDelete(t.content, fallback_fails) ELSE Erased(FALSE)

secure_delete_file(file, passes, fail_at, fallback_fails) ==
    IF ~file.exists
    THEN [ exists |-> FALSE, content |-> file.content, raised |-> FALSE ]
    ELSE LET t == TryOverwriteAndRemove(file, passes, fail_at)
         IN IF t.failed THEN FallbackDelete(t.content, fallback_fails) ELSE Erased(FALSE)

\* One call of secure_delete_file on the stored container and what it left.
EraseCall(before, fail_at, fallback_fails, after) ==
    [ op |-> "erase", before |-> before, fail_at |-> fail_at,
      fallback_fails |-> fallback_fails, after |-> after ]

\* crypto_utils.secure_delete_file(bar_file) on the stored container
Erase(fail_at, fallback_fails) ==
    /\ codecStage = "stored"
    /\ Len(results) < MaxErases
    /\ LET before == File(fileOnDisk, envelope)
           after == secure_delete_file(before, ErasePasses, fail_at, fallback_fails)
       IN /\ fileOnDisk' = after.exists
          /\ envelope' = after.content
          /\ results' = Append(results, EraseCall(before, fail_at, fallback_fails, after))
    /\ UNCHANGED <<codecStage, sealInput, sealed, tamper, openInput, openResult, backend, otp_storage,
                   now, row, pc, loc, sweepPc, sweepHit, sweeps, guardVars>>

NextErase ==
    \/ \E in \in ServerSealInputs : SealServer(in)
    \/ \E fail_at \in FailurePoints : \E fallback_fails \in BOOLEAN :
          Erase(fail_at, fallback_fails)

SpecErase == InitServer /\ [][NextErase]_vars

EraseCalls == {i \in DOMAIN results : results[i].op = "erase"}

\* C16: secure_delete_file on an absent object does nothing and does not
\* raise, so a second call after a call that removed the object leaves the
\* state of the first and does not raise.
C16_EraseIsIdempotent ==
    \A i \in EraseCalls :
        ~results[i].before.exists =>
            /\ ~results[i].after.raised
            /\ ~results[i].after.exists
            /\ results[i].after.content = results[i].before.content

C16_Witness ==
    \E i \in EraseCalls :
        /\ i + 1 \in EraseCalls
        /\ results[i].before.exists
        /\ ~results[i].after.exists
        /\ ~results[i+1].before.exists
        /\ ~results[i+1].after.raised
        /\ ~fileOnDisk

\* The call raised inside the try block and the os.remove of the except
\* block raised as well.
FallbackFailed(c) ==
    c.before.exists /\ c.fail_at # NoFailure /\ c.fallback_fails

CredentialRejections ==
    {i \in DOMAIN results :
        /\ results[i].op = "share"
        /\ ShareOutcome(results[i].res) \in {"PasswordRequired", "InvalidCredential"}
        /\ now - results[i].checked_at < LOCKOUT_DURATION_MINUTES}

PasswordAccepted ==
    \E i \in DOMAIN results :
        results[i].op = "share" /\ Strip(results[i].password) = sealInput.password

\* C13: every redemption of a password-protected container that is rejected
\* for a missing or wrong password is recorded as a failed attempt of the
\* client for that container, so the failures on record are at least the
\* rejections handed out in the window.
C13_RejectionsAreRecorded ==
    (Stored /\ NoneInFlight /\ ~PasswordAccepted) =>
        Len(FailedAttempts(RecentAttempts(password_attempts["ip:token"], now)))
            >= Cardinality(CredentialRejections)

(***************************************************************************)
(* Destruction: redemptions against the erase and the destroyed flag       *)
(***************************************************************************)
\* The redemption got the live ledger record, and the stored file had been
\* erased by another actor when the redemption ended.
OvertakenByErase(r) == r.op = "share" /\ r.file_record.present /\ ~r.file_at_end

\* C18: a redemption that runs concurrently with the erase of its container
\* ends as NotFound; it never returns plaintext and never ends with another
\* error.
C18_ConcurrentWithEraseIsNotFound ==
    Stored =>
        \A i \in DOMAIN results :
            OvertakenByErase(results[i]) =>
                /\ ShareOutcome(results[i].res) = "NotFound"
                /\ results[i].res.content = ""

Flagged(r) == r.present /\ r.destroyed

\* A redemption request starts in this step, in slot p.
Starts(p) == pc[p] = "idle" /\ pc'[p] = "fetched"

\* The redemptions that got no ledger record are answered 404 without content.
NoRecordIsNotFound ==
    \A i \in DOMAIN results :
        (results[i].op = "share" /\ ~results[i].file_record.present) =>
            /\ ShareOutcome(results[i].res) = "NotFound"
            /\ results[i].res.content = ""

\* C19: once the ledger record is flagged destroyed, a redemption that starts
\* afterwards gets no record and is answered NotFound without plaintext, and
\* no later step increments current_views.
C19_DestroyedStaysClosed ==
    [][/\ Flagged(row) =>
             /\ \A p \in Procs : Starts(p) => ~loc'[p].file_record.present
             /\ row'.present => row'.current_views = row.current_views
       /\ NoRecordIsNotFound']_vars

C19_Witness ==
    /\ Stored
    /\ Flagged(row)
    /\ \E p \in Procs : pc[p] \in {"inc_update", "inc_select"}
    /\ \E i \in DOMAIN results :
          /\ results[i].op = "share"
          /\ ~results[i].file_record.present
          /\ ShareOutcome(results[i].res) = "NotFound"

\* The actors that have carried out a destruction of the container: the
\* redemptions that reported should_destroy (they flagged the record and
\* called the erase), and the sweep once it has erased and flagged.
DestroyingRedemptions ==
    {i \in DOMAIN results : results[i].op = "share" /\ results[i].res.should_destroy}

SweepDestroyed == sweepHit /\ sweepPc \in {"exhausted_query", "cleanup_old"}

Destroyers == Cardinality(DestroyingRedemptions) + (IF SweepDestroyed THEN 1 ELSE 0)

\* C20: the destroyed flag never goes back from true to false, and at most
\* one actor, a redemption or the sweep, carries out the erase and the
\* destruction of the container.
C20_DestroyedOnce ==
    [][/\ (Flagged(row) /\ row'.present) => row'.destroyed
       /\ Destroyers' <= 1]_vars

(***************************************************************************)
(* services/cleanup.py run_cleanup_loop: the sweep repeats for ever, with  *)
(* a sleep between two passes, next to a bounded number of redemptions.    *)
(***************************************************************************)
MaxLiveRequests == 2

\* "await asyncio.sleep(CLEANUP_INTERVAL)", then the next pass of the loop
CleanupLoopSleep ==
    /\ codecStage = "stored"
    /\ sweepPc = "idle"
    /\ sweeps >= MaxSweeps
    /\ sweeps' = 0
    /\ UNCHANGED <<codecVars, backend, otp_storage, now, row, fileOnDisk, sweepPc, sweepHit,
                   requestVars, guardVars>>

RunCleanupLoop == Sweep \/ CleanupLoopSleep

NextLive ==
    \/ \E in \in ServerSealInputs : SealServer(in)
    \/ \E p \in Procs : \E password \in RequestPasswords :
          Started < MaxLiveRequests /\ ShareFetch(p, password)
    \/ \E p \in Procs : ShareStep(p)
    \/ \E p \in Procs : IncStep(p)
    \/ RunCleanupLoop
    \/ Tick

\* The loop task is scheduled again and again; requests and the clock may
\* stop at any point.
SpecLive == InitServer /\ [][NextLive]_vars /\ WF_vars(RunCleanupLoop)

Expired(r, t) == r.expires_at # NoExpiry /\ r.expires_at < t

Exhausted(r) == r.current_views >= r.max_views

DueForDestruction == Stored /\ row.present /\ ~row.destroyed
                     /\ (Expired(row, now) \/ Exhausted(row))

DestroyedAndErased == (~row.present \/ row.destroyed) /\ ~fileOnDisk

BAR_HEADER_V2 == "BAR_FILE_V2\n"

BarId == "bar1"

\* json.dumps(bar_structure, indent=2): another text of the same value
json_dumps_indent(d) == <<"json_indent", d>>

\* crypto_utils.py create_bar_metadata
create_bar_metadata(filename, max_views, expiry_minutes, password_protected, view_only, utcnow) ==
    [ filename |-> filename,
      created_at |-> utcnow,
      expires_at |-> ExpiresAt(utcnow, expiry_minutes),
      max_views |-> max_views,
      current_views |-> 0,
      password_protected |-> password_protected,
      view_only |-> view_only,
      file_hash |-> sha256(""),
      version |-> "1.0" ]

\* crypto_utils_v2.py create_bar_metadata
create_bar_metadata_v2(filename, max_views, expiry_minutes, password_protected, view_only, salt, utcnow) ==
    [ filename |-> filename,
      created_at |-> utcnow,
      expires_at |-> ExpiresAt(utcnow, expiry_minutes),
      max_views |-> max_views,
      current_views |-> 0,
      password_protected |-> password_protected,
      view_only |-> view_only,
      file_hash |-> sha256(""),
      salt |-> salt,
      version |-> "2.0" ]

generate_key_from_bar_id(bar_id, salt) == <<"pbkdf2", bar_id, salt>>

\* crypto_utils.py pack_bar_file
legacy_pack_bar_file(encrypted_data, metadata, key) ==
    [ header |-> BAR_HEADER,
      body |-> json_dumps_indent([ metadata |-> metadata,
                                   encryption_key |-> b64encode(key),
                                   encrypted_data |-> b64encode(encrypted_data) ]) ]

Unpacked(encrypted_data, metadata, key) ==
    [ exc |-> "none", msg |-> "", encrypted_data |-> encrypted_data,
      metadata |-> metadata, key |-> key, warned |-> FALSE ]

\* crypto_utils.py unpack_bar_file
legacy_unpack_bar_file(bar_data) ==
    IF bar_data.header # BAR_HEADER
    THEN Raise("ValueError", "Invalid BAR file format")
    ELSE IF bar_data.body[1] # "json_indent"
    THEN Raise("ValueError", "Expecting value")
    ELSE LET bar_structure == json_loads(bar_data.body)
         IN  IF ~Has(bar_structure, "encryption_key")
             THEN Raise("KeyError", "encryption_key")
             ELSE Unpacked(b64decode(bar_structure["encrypted_data"]),
                           bar_structure["metadata"],
                           b64decode(bar_structure["encryption_key"]))

\* crypto_utils_v2.py pack_bar_file_secure
pack_bar_file_secure(encrypted_data, metadata) ==
    [ header |-> BAR_HEADER_V2,
      body |-> json_dumps_indent([ metadata |-> metadata,
                                   encrypted_data |-> b64encode(encrypted_data) ]) ]

\* crypto_utils_v2.py unpack_bar_file_secure; key = <<>> stands for None
unpack_bar_file_secure(bar_data) ==
    IF bar_data.header = BAR_HEADER_V2
    THEN IF bar_data.body[1] # "json_indent"
         THEN Raise("ValueError", "Expecting value")
         ELSE LET bar_structure == json_loads(bar_data.body)
              IN  Unpacked(b64decode(bar_structure["encrypted_data"]),
                           bar_structure["metadata"], <<>>)
    ELSE IF bar_data.header = BAR_HEADER
    THEN legacy_unpack_bar_file(bar_data)
    ELSE Raise("ValueError", "Invalid BAR file format")

\* utils/crypto_utils.py pack_bar_file as it was before the lines that sign
\* the envelope were added.
pack_bar_file_pre_hmac(encrypted_data, metadata, key, password, salt) ==
    BarBytes(BarStructure(encrypted_data, metadata, key, password, salt))

MaxLegacyUploads == 3

LegacyPackers ==
    {"v1_plain", "v2_secure", "key_stored", "pre_hmac_key_stored",
     "pre_hmac_password_derived"}

\* password: the password the sealer chose (<<>>: not password_protected);
\* with_hash: the metadata carries password_hash.
LegacyInputs ==
    { in \in [ file_data : Plaintexts, filename : Filenames, max_views : 1..MaxViews,
               expiry_minutes : {0}, password : {<<>>, PwA}, with_hash : BOOLEAN,
               view_only : {FALSE}, packer : LegacyPackers, now : {0},
               salt : {"salt1"}, rnd : {"key1"} ] :
        /\ in.with_hash => (in.password # <<>> /\ in.packer \notin {"v1_plain", "v2_secure"})
        /\ in.packer = "pre_hmac_password_derived" => in.password # <<>> }

\* The container an older writer made of in.
LegacyContainer(in) ==
    LET protected == in.password # <<>>
        hashed(md) == [md EXCEPT !.file_hash = calculate_file_hash(in.file_data)]
        client == LET md == hashed(create_client_metadata(in.filename, in.expiry_minutes,
                                                          protected, in.view_only, in.now))
                  IN  IF in.with_hash THEN Put(md, "password_hash", sha256(in.password))
                      ELSE md
        random_key == generate_key(in.rnd)
    IN  CASE in.packer = "v1_plain" ->
               LET md == hashed(create_bar_metadata(in.filename, in.max_views,
                                    in.expiry_minutes, protected, in.view_only, in.now))
               IN  [ bar_data |-> legacy_pack_bar_file(encrypt_file(in.file_data, random_key),
                                                      md, random_key),
                     metadata |-> md ]
          [] in.packer = "v2_secure" ->
               LET md == hashed(create_bar_metadata_v2(in.filename, in.max_views,
                                    in.expiry_minutes, protected, in.view_only,
                                    b64encode(in.salt), in.now))
                   key == generate_key_from_bar_id(BarId, in.salt)
               IN  [ bar_data |-> pack_bar_file_secure(encrypt_file(in.file_data, key), md),
                     metadata |-> md ]
          [] in.packer = "key_stored" ->
               [ bar_data |-> pack_bar_file(encrypt_file(in.file_data, random_key), client,
                                            random_key, <<>>, "").bar_data,
                 metadata |-> client ]
          [] in.packer = "pre_hmac_key_stored" ->
               [ bar_data |-> pack_bar_file_pre_hmac(encrypt_file(in.file_data, random_key),
                                                     client, random_key, <<>>, ""),
                 metadata |-> client ]
          [] in.packer = "pre_hmac_password_derived" ->
               LET key == derive_key_from_password(in.password, in.salt)
               IN  [ bar_data |-> pack_bar_file_pre_hmac(encrypt_file(in.file_data, key),
                                                         client, key, in.password, in.salt),
                     metadata |-> client ]

InitLegacy ==
    /\ codecStage = "legacy_input"
    /\ sealInput \in LegacyInputs
    /\ sealed = NoSeal
    /\ envelope = <<>>
    /\ tamper = <<"none", "none">>
    /\ openInput = NoOpen
    /\ openResult = NoResult
    /\ backend = "sqlite"
    /\ now = 0
    /\ ServerIdle
    /\ GuardIdle
    /\ results = <<>>

\* The holder has the container of an older writer at hand.
PackLegacy ==
    /\ codecStage = "legacy_input"
    /\ sealed' = LegacyContainer(sealInput)
    /\ envelope' = sealed'.bar_data
    /\ codecStage' = "downloaded"
    /\ UNCHANGED <<sealInput, tamper, openInput, openResult>>
    /\ UNCHANGED <<serverVars, guardVars, now, results>>

\* What unpack_bar_file returns, payload included.
UnpackedResult(u) ==
    [ exc |-> u.exc, status_code |-> 0, detail |-> u.msg, decrypted_data |-> "",
      metadata |-> u.metadata, encrypted_data |-> u.encrypted_data, key |-> u.key,
      warned |-> u.warned ]

\* unpack_bar_file, called directly or from decrypt_bar_file
OpenLegacy(password, via) ==
    /\ codecStage = "downloaded"
    /\ openInput' = [ password |-> password, via |-> via ]
    /\ openResult' = IF via = "service"
                     THEN ServiceResult(decrypt_bar_file(envelope, password))
                     ELSE UnpackedResult(unpack_bar_file(envelope, password))
    /\ UNCHANGED <<codecStage, sealInput, sealed, envelope, tamper>>
    /\ UNCHANGED <<serverVars, guardVars, now, results>>

NextLegacy ==
    \/ PackLegacy
    \/ \E password \in UploadPasswords, via \in {"service", "unpack"} :
          OpenLegacy(password, via)
    \/ \E password \in UploadPasswords :
          Len(results) < MaxLegacyUploads /\ DecryptUpload(password)

SpecLegacy == InitLegacy /\ [][NextLegacy]_vars

\* Open accepts the container at hand when given the sealer's password.
OpenAccepts == unpack_bar_file(envelope, sealInput.password).exc = "none"

ProtectedContainer ==
    /\ codecStage = "downloaded"
    /\ sealed.metadata["password_protected"]
    /\ OpenAccepts

\* C22: a redemption of a password_protected container that Open accepts
\* returns the plaintext only if the supplied password, surrounding blanks
\* dropped, is the sealing password; without a password it is answered
\* "Password required", with another password "Invalid password" (a locked
\* out or rate limited client is answered 429 instead), in both encryption
\* modes.
C22_PasswordMustVerify ==
    ProtectedContainer =>
      \A i \in DOMAIN results :
         LET r == results[i]
             supplied == Strip(r.password)
         IN  /\ r.res.status_code = 200 => supplied = sealInput.password
             /\ r.res.status_code # 429 =>
                  /\ supplied = <<>> => MentionsPasswordRequired(r.res.detail)
                  /\ supplied \notin {<<>>, sealInput.password}
                        => MentionsInvalidPassword(r.res.detail)


Unsigned ==
    /\ codecStage = "downloaded"
    /\ sealInput.packer \in {"pre_hmac_key_stored", "pre_hmac_password_derived"}
    /\ ~Has(EnvelopeOf(envelope), "hmac_signature")

\* The key the sealer encrypted the payload with.
SealingKey ==
    IF sealInput.packer = "pre_hmac_password_derived"
    THEN derive_key_from_password(sealInput.password, sealInput.salt)
    ELSE generate_key(sealInput.rnd)

\* The key unpack_bar_file arrives at for the password it was given.
UsualKey(password) ==
    IF sealInput.packer = "pre_hmac_password_derived"
    THEN derive_key_from_password(password, sealInput.salt)
    ELSE generate_key(sealInput.rnd)

\* C25: a container without hmac_signature is never refused for that reason.
\* unpack_bar_file, unless it stops on the password first, returns with a
\* warning only, the key derived or extracted as usual and the payload and
\* metadata of the envelope; decrypt_bar_file never answers TamperDetected
\* and returns the plaintext whenever that key decrypts the payload and the
\* content hash matches.
C25_UnsignedLegacyIsOpened ==
    (Unsigned /\ openInput.via # "none") =>
       /\ OutcomeOf(openResult) # "TamperDetected"
       /\ openInput.via = "unpack" =>
            \/ OutcomeOf(openResult) \in {"PasswordRequired", "InvalidCredential"}
            \/ /\ openResult.exc = "none"
               /\ openResult.warned
               /\ openResult.key = UsualKey(openInput.password)
               /\ openResult.metadata = sealed.metadata
               /\ openResult.encrypted_data = encrypt_file(sealInput.file_data, SealingKey)
       /\ openInput.via = "service" =>
            \/ OutcomeOf(openResult) \in {"PasswordRequired", "InvalidCredential"}
            \/ IF UsualKey(Strip(openInput.password)) = SealingKey
               THEN /\ OutcomeOf(openResult) = "Ok"
                    /\ openResult.decrypted_data = sealInput.file_data
               ELSE OutcomeOf(openResult) = "DecryptionFailed"

C25_Witness ==
    /\ Unsigned
    /\ sealInput.packer = "pre_hmac_password_derived"
    /\ openInput = [ password |-> PwA, via |-> "service" ]
    /\ OutcomeOf(openResult) = "Ok"
    /\ openResult.decrypted_data = sealInput.file_data


\* What the unpacker that belongs to the older packer returns.
LegacyUnpacked ==
    IF sealInput.packer = "v2_secure" THEN unpack_bar_file_secure(envelope)
    ELSE legacy_unpack_bar_file(envelope)

\* C26: a container written by the legacy pack_bar_file (plain JSON,
\* BAR_FILE_V1) or by pack_bar_file_secure (BAR_FILE_V2) is opened by the
\* current unpack_bar_file, which returns the encrypted payload and the
\* metadata that the corresponding legacy unpacker returns.
C26_OlderFormatsAreRead ==
    (/\ codecStage = "downloaded"
     /\ sealInput.packer \in {"v1_plain", "v2_secure"}
     /\ openInput.via = "unpack")
    => (/\ LegacyUnpacked.exc = "none"
        /\ openResult.exc = "none"
        /\ openResult.encrypted_data = LegacyUnpacked.encrypted_data
        /\ openResult.metadata = LegacyUnpacked.metadata)


(***************************************************************************)
(* POST /decrypt/{bar_id}: app.py decrypt_bar and api/routes/decrypt.py    *)
(* decrypt_bar.  Neither handler awaits, so each call is one step.  The    *)
(* only files in the generated directory are the server-custody ones,      *)
(* stored as "<token>.bar" (the client-custody file is removed by /seal).  *)
(***************************************************************************)
MaxDirectCalls == 2

IdPrefixLen == 8

Token == <<"t", "o", "k", "e", "n", "0", "0", "1", "x", "y">>

BarFilename == Token \o <<".", "b", "a", "r">>

\* The ids a client sends: one with the first eight characters of the token,
\* one that differs within them, and a short one.
BarIds ==
    { SubSeq(Token, 1, IdPrefixLen) \o <<"z", "z">>,
      <<"o", "t", "h", "e", "r", "0", "0", "2", "x", "y">>,
      <<"k", "e", "n">> }

\* a in b, for strings
IsSubstring(a, b) ==
    \E i \in 0..(Len(b) - Len(a)) : SubSeq(b, i + 1, i + Len(a)) = a

\* bar_id[:8] in filename and filename.endswith('.bar')
get_bar_file_path(bar_id, exists) ==
    /\ exists
    /\ IsSubstring(SubSeq(bar_id, 1, Min(IdPrefixLen, Len(bar_id))), BarFilename)

\* crypto_utils.py validate_bar_access: expiry, embedded views, presence of a
\* password
validate_bar_access(metadata, password, t) ==
    LET expired == metadata["expires_at"] # NoExpiry /\ t > metadata["expires_at"]
        max_views == IF Has(metadata, "max_views") THEN metadata["max_views"] ELSE 0
        current_views == IF Has(metadata, "current_views")
                         THEN metadata["current_views"] ELSE 0
        used_up == max_views > 0 /\ current_views >= max_views
        missing == Has(metadata, "password_protected") /\ metadata["password_protected"]
                   /\ password = <<>>
    IN  [ is_valid |-> ~expired /\ ~used_up /\ ~missing,
          detail |-> IF missing /\ ~expired /\ ~used_up THEN "Password required"
                     ELSE IF expired /\ ~used_up /\ ~missing THEN ExpiredDetail
                     ELSE "Maximum views reached" ]

DirectNotFound == "BAR file not found or already destroyed"

\* What decrypt_bar answers and what it leaves on disk.
DirectAnswer(res, exists, bar_data) ==
    [ res |-> res, exists |-> exists, bar_data |-> bar_data ]

\* The part both handlers share: count the view in the embedded metadata,
\* then write the container back or erase it.
CountAndRewrite(bar_data, decrypted_data, encrypted_data, metadata, key, password) ==
    IF ~Has(metadata, "current_views")
    THEN DirectAnswer(HttpResult(500, "Decryption failed"), TRUE, bar_data)
    ELSE
    LET counted == [metadata EXCEPT !["current_views"] = @ + 1]
        max_views == IF Has(counted, "max_views") THEN counted["max_views"] ELSE 0
        should_destroy == max_views > 0 /\ counted["current_views"] >= max_views
        protected == Has(counted, "password_protected") /\ counted["password_protected"]
        updated_bar == pack_bar_file(encrypted_data, counted, key,
                                     IF protected THEN password ELSE <<>>, "")
        answer == Response(200, "", TRUE,
                           IF max_views - counted["current_views"] > 0
                           THEN max_views - counted["current_views"] ELSE 0,
                           should_destroy, decrypted_data)
    IN  IF should_destroy
        THEN DirectAnswer(answer, FALSE, bar_data)
        ELSE IF updated_bar.exc # "none"
        THEN DirectAnswer(HttpResult(500, "Decryption failed"), TRUE, bar_data)
        ELSE DirectAnswer(answer, TRUE, updated_bar.bar_data)

\* api/routes/decrypt.py decrypt_bar
decrypt_bar_route(bar_id, password, exists, bar_data) ==
    IF ~get_bar_file_path(bar_id, exists)
    THEN DirectAnswer(HttpResult(404, DirectNotFound), exists, bar_data)
    ELSE
    LET r == decrypt_bar_file(bar_data, password)
    IN  IF r.exc = "HTTPException"
        THEN DirectAnswer(HttpResult(r.status_code, r.detail), exists, bar_data)
        ELSE IF r.exc # "none"
        THEN DirectAnswer(HttpResult(500, "Decryption failed"), exists, bar_data)
        ELSE CountAndRewrite(bar_data, r.decrypted_data,
                             encrypt_file(decrypt_file(encrypt_file(r.decrypted_data, r.key),
                                                       r.key).data, r.key),
                             r.metadata, r.key, password)

\* app.py decrypt_bar
decrypt_bar_app(bar_id, password, exists, bar_data, t) ==
    IF ~get_bar_file_path(bar_id, exists)
    THEN DirectAnswer(HttpResult(404, DirectNotFound), exists, bar_data)
    ELSE
    LET u == unpack_bar_file(bar_data, password)
    IN  IF u.exc # "none"
        THEN DirectAnswer(HttpResult(500, "Decryption failed"), exists, bar_data)
        ELSE
        LET v == validate_bar_access(u.metadata, password, t)
            d == decrypt_file(u.encrypted_data, u.key)
        IN  IF ~v.is_valid
            THEN DirectAnswer(HttpResult(403, v.detail), exists, bar_data)
            ELSE IF d.status # "ok"
            THEN DirectAnswer(HttpResult(500, "Decryption failed - invalid key or corrupted file"),
                              exists, bar_data)
            ELSE IF calculate_file_hash(d.data) # u.metadata["file_hash"]
            THEN DirectAnswer(HttpResult(500, TamperDetail), exists, bar_data)
            ELSE CountAndRewrite(bar_data, d.data, u.encrypted_data, u.metadata, u.key,
                                 password)

\* POST /decrypt/{bar_id}
DecryptBar(bar_id, password, handler) ==
    /\ codecStage = "stored"
    /\ Started < MaxDirectCalls
    /\ LET a == IF handler = "app"
                THEN decrypt_bar_app(bar_id, password, fileOnDisk, envelope, now)
                ELSE decrypt_bar_route(bar_id, password, fileOnDisk, envelope)
       IN /\ envelope' = a.bar_data
          /\ fileOnDisk' = a.exists
          /\ results' = Append(results, [FreshLocal EXCEPT !.op = "decrypt_bar",
                                                           !.password = password,
                                                           !.file_seen = fileOnDisk,
                                                           !.checked_at = now,
                                                           !.file_at_end = a.exists,
                                                           !.res = a.res])
    /\ UNCHANGED <<codecStage, sealInput, sealed, tamper, openInput, openResult>>
    /\ UNCHANGED <<backend, otp_storage, now, row, pc, loc, sweepPc, sweepHit, sweeps, guardVars>>

NextDirect ==
    \/ \E in \in ServerSealInputs : SealServer(in)
    \/ \E bar_id \in BarIds, password \in RequestPasswords, handler \in {"app", "route"} :
          DecryptBar(bar_id, password, handler)
    \/ \E p \in Procs : \E password \in RequestPasswords :
          NoneInFlight /\ Started < MaxDirectCalls /\ ShareFetch(p, password)
    \/ \E p \in Procs : ShareStep(p)
    \/ \E p \in Procs : IncStep(p)
    \/ Tick

SpecDirect == InitServer /\ [][NextDirect]_vars


\* The mode Seal gives an envelope for this sealing password.
SealedMode(bar_structure, password) ==
    IF password # <<>>
    THEN /\ bar_structure["encryption_method"] = "password_derived"
         /\ Has(bar_structure, "salt")
         /\ ~Has(bar_structure, "encryption_key")
    ELSE /\ bar_structure["encryption_method"] = "key_stored"
         /\ Has(bar_structure, "encryption_key")
         /\ ~Has(bar_structure, "salt")

Rewritten == codecStage = "stored" /\ envelope # sealed.bar_data

\* C23: the envelope Seal writes with a password is password_derived, with a
\* salt and without encryption_key; the one it writes without a password is
\* key_stored, with encryption_key and without salt; and the container keeps
\* that mode through every rewrite by decrypt/{bar_id}.
C23_ModeIsKept ==
    codecStage = "stored" =>
       /\ SealedMode(EnvelopeOf(sealed.bar_data), sealInput.password)
       /\ SealedMode(EnvelopeOf(envelope), sealInput.password)

C23_Witness ==
    /\ Rewritten
    /\ fileOnDisk
    /\ EnvelopeOf(envelope)["metadata"]["current_views"] = 1
    /\ EnvelopeOf(envelope)["encryption_method"] = "key_stored"

\* C24: the bytes of a server-custody container are never rewritten after
\* creation, and so its embedded current_views never changes.
C24_ServerBytesNeverRewritten ==
    [][codecStage = "stored" => envelope' = envelope]_vars


(***************************************************************************)
(* The view-refresh window of api/routes/share.py share_file.  The handler *)
(* takes the ledger from core.database, whose increment_view_count gets    *)
(* the session fingerprint and the window and returns a fourth value,      *)
(* is_new_view; that module is written here after the specification:       *)
(* redemptions from the same fingerprint within the window do not          *)
(* increment the counter.  Redemptions are taken one at a time.            *)
(***************************************************************************)
MaxRefreshCalls == 4
MaxRefreshViews == 3

RefreshWindows == {0, 30, 60}

Clients ==
    { [ ip |-> "ip1", user_agent |-> "ua1" ],
      [ ip |-> "ip1", user_agent |-> "ua2" ],
      [ ip |-> "ip2", user_agent |-> "ua1" ] }

\* sha256(f"{token}|{ip_address}|{user_agent}")[:16]
generate_session_fingerprint(token, ip_address, user_agent) ==
    sha256(<<token, ip_address, user_agent>>)

\* The accesses logged as counted views (access_logs with is_counted_as_view).
CountedViews(logs) == {i \in DOMAIN logs : logs[i].op = "refresh" /\ logs[i].is_new_view}

\* A counted view of this fingerprint lies less than the window back.
WithinRefreshWindow_Never(logs, session_fingerprint, view_refresh_minutes, t) == FALSE

WithinRefreshWindow(logs, session_fingerprint, view_refresh_minutes, t) ==
    /\ view_refresh_minutes > 0
    /\ \E i \in CountedViews(logs) :
          /\ logs[i].session_fingerprint = session_fingerprint
          /\ t - logs[i].checked_at < view_refresh_minutes

RefreshResult(success, views_remaining, should_destroy, is_new_view, r) ==
    [ success |-> success, views_remaining |-> views_remaining,
      should_destroy |-> should_destroy, is_new_view |-> is_new_view, row |-> r ]

\* core.database increment_view_count(token, session_fingerprint,
\* view_refresh_minutes) -> (success, views_remaining, should_destroy,
\* is_new_view)
increment_view_count_refresh(r, logs, session_fingerprint, view_refresh_minutes, t) ==
    IF ~UpdateMatches(r)
    THEN RefreshResult(FALSE, 0, FALSE, FALSE, r)
    ELSE IF WithinRefreshWindow(logs, session_fingerprint, view_refresh_minutes, t)
    THEN RefreshResult(TRUE, ViewsRemaining(r.current_views, r.max_views), FALSE, FALSE, r)
    ELSE LET u == UpdateCurrentViews(r)
             should_destroy == ShouldDestroy(u.current_views, u.max_views)
         IN  RefreshResult(TRUE, ViewsRemaining(u.current_views, u.max_views),
                           should_destroy, TRUE,
                           IF should_destroy THEN mark_as_destroyed(u) ELSE u)

RefreshSealInputs ==
    [ file_data : {"hello"}, filename : Filenames, max_views : 1..MaxRefreshViews,
      expiry_minutes : {0}, password : {<<>>}, view_only : {FALSE},
      storage_mode : {"server"}, now : {0}, salt : {"salt1"}, rnd : {"key1"},
      view_refresh_minutes : RefreshWindows ]

\* POST /seal with storage_mode = server and a view-refresh window: the
\* window goes into the metadata of the container.
SealRefresh(in) ==
    /\ codecStage = "empty"
    /\ validate_max_views(in.max_views)
    /\ LET made == create_bar_file(in)
           metadata == Put(made.metadata, "view_refresh_minutes", in.view_refresh_minutes)
           key == generate_key(in.rnd)
       IN  /\ sealed' = [ bar_data |-> pack_bar_file(encrypt_file(in.file_data, key),
                                                     metadata, key, <<>>, "").bar_data,
                          metadata |-> metadata ]
           /\ row' = create_file_record(metadata)
    /\ sealInput' = in
    /\ envelope' = sealed'.bar_data
    /\ fileOnDisk' = TRUE
    /\ codecStage' = "stored"
    /\ UNCHANGED <<tamper, openInput, openResult, backend, otp_storage, now, pc, loc, sweepPc,
                   sweepHit, sweeps, guardVars, results>>

RefreshLog(client, t, before, res, is_new_view, after) ==
    [FreshLocal EXCEPT !.op = "refresh", !.file_record = before, !.checked_at = t,
                       !.current_views = after.current_views,
                       !.max_views = after.max_views, !.res = res]
    @@ [ session_fingerprint |-> generate_session_fingerprint(Token, client.ip,
                                                              client.user_agent),
         is_new_view |-> is_new_view ]

\* POST /share/{token} of api/routes/share.py, from get_file_record to the
\* response.
RedeemRefresh(client) ==
    /\ codecStage = "stored"
    /\ Len(results) < MaxRefreshCalls
    /\ LET c == ShareChecks(get_file_record(row), fileOnDisk, envelope, <<>>, now,
                            password_attempts["ip:token"])
           metadata == EnvelopeOf(envelope)["metadata"]
           view_refresh_minutes == IF Has(metadata, "view_refresh_minutes")
                                   THEN metadata["view_refresh_minutes"] ELSE 0
           fp == generate_session_fingerprint(Token, client.ip, client.user_agent)
           inc == increment_view_count_refresh(row, results, fp, view_refresh_minutes, now)
       IN  IF c.next = "done"
           THEN /\ results' = Append(results, RefreshLog(client, now, row, c.res, FALSE, row))
                /\ UNCHANGED <<row, fileOnDisk>>
           ELSE IF c.next = "mark_missing"
           THEN /\ row' = mark_as_destroyed(row)
                /\ results' = Append(results,
                                     RefreshLog(client, now, row,
                                                HttpResult(404, NotFoundDetail), FALSE, row'))
                /\ UNCHANGED fileOnDisk
           ELSE IF ~inc.success
           THEN /\ results' = Append(results,
                                     RefreshLog(client, now, row,
                                                HttpResult(500, "Failed to update view count"),
                                                FALSE, row))
                /\ UNCHANGED <<row, fileOnDisk>>
           ELSE /\ row' = inc.row
                /\ fileOnDisk' = (fileOnDisk /\ ~inc.should_destroy)
                /\ results' = Append(results,
                                     RefreshLog(client, now, row,
                                                Response(200, "", TRUE, inc.views_remaining,
                                                         inc.should_destroy, c.decrypted_data),
                                                inc.is_new_view, row'))
    /\ UNCHANGED <<codecVars, backend, otp_storage, now, pc, loc, sweepPc, sweepHit, sweeps, guardVars>>

NextRefresh ==
    \/ \E in \in RefreshSealInputs : SealRefresh(in)
    \/ \E client \in Clients : RedeemRefresh(client)
    \/ Tick

SpecRefresh == InitServer /\ [][NextRefresh]_vars

\* The redemption i was served (it reached the ledger's increment).
ServedRefresh(i) == results[i].op = "refresh" /\ results[i].res.status_code = 200

\* An earlier counted view of the same fingerprint lies within the window.
RecentlyCounted(i) ==
    \E j \in 1..(i - 1) :
       /\ results[j].is_new_view
       /\ results[j].session_fingerprint = results[i].session_fingerprint
       /\ results[i].checked_at - results[j].checked_at < sealInput.view_refresh_minutes

C28_FlaggedBeforeErase ==
    [][(codecStage = "stored" /\ fileOnDisk /\ ~fileOnDisk') => Flagged(row')]_vars


\* The increment_view_count calls that returned success.
SuccessfulIncrements ==
    {i \in DOMAIN results : results[i].op = "inc" /\ results[i].res.success}

\* C29: the successful increment_view_count calls on the record return
\* pairwise distinct views_remaining, and should_destroy = true is returned
\* by one call only, the one that brought current_views to max_views.
C29_OwnIncrementResult ==
    Stored =>
      \A i, j \in SuccessfulIncrements :
         i # j => /\ results[i].res.views_remaining # results[j].res.views_remaining
                  /\ ~(results[i].res.should_destroy /\ results[j].res.should_destroy)

\* The record was flagged destroyed or absent when the call began.
BeganOnDestroyed(l) ==
    l.op = "inc" /\ (~l.file_record.present \/ l.file_record.destroyed)

\* C30: increment_view_count on a record that is flagged destroyed or absent
\* when the call begins returns success = false and no statement of the call
\* changes the record, on SQLite as on PostgreSQL.
C30_DestroyedIsRefused ==
    /\ [](Stored => \A i \in DOMAIN results :
                       BeganOnDestroyed(results[i]) => ~results[i].res.success)
    /\ [][\A p \in Procs :
             (BeganOnDestroyed(loc[p]) /\ pc'[p] # pc[p]) => row' = row]_vars


(***************************************************************************)
(* Two-factor redemption: a record sealed with require_otp, the routes     *)
(* /request-otp/{token} and /verify-otp/{token}, and share_file behind the *)
(* 2FA gate.  Both routes allow 5, respectively 10, calls a minute, more   *)
(* than the calls made here.                                               *)
(***************************************************************************)
MaxOtpCalls == 5
MaxGateCalls == 2
MaxOtpRedemptions == 2

\* generate_otp draws the code at random; the codes a caller may submit
OtpCodes == {"111111", "222222"}

OtpSealInputs ==
    [ file_data : {"hello"}, filename : Filenames, max_views : 1..MaxViews,
      expiry_minutes : {0}, password : {<<>>}, view_only : {FALSE},
      storage_mode : {"server"}, now : {0}, salt : {"salt1"}, rnd : {"key1"},
      require_otp : {TRUE} ]

\* The history entry of a call of an OTP route: the code, the session before
\* and after, and whether the code was compared with the stored hash.
OtpLog(op, otp_code, t, before, after, compared, res) ==
    [FreshLocal EXCEPT !.op = op, !.checked_at = t, !.res = res]
        @@ [ otp_code |-> otp_code, session |-> before, session_after |-> after,
             compared |-> compared ]

\* POST /request-otp/{token}: the session is created before the mail is sent
RequestOtp(otp_code, sent) ==
    /\ codecStage = "stored"
    /\ LET file_record == get_file_record(row)
           created == file_record.present /\ file_record.require_otp
           after == IF created THEN create_otp_session(otp_code, now) ELSE otp_storage
           res == IF ~file_record.present THEN HttpResult(404, NotFoundDetail)
                  ELSE IF ~file_record.require_otp
                  THEN HttpResult(400, "This file does not require 2FA")
                  ELSE IF ~sent THEN HttpResult(500, "Failed to send email")
                  ELSE Response(200, "OTP sent", TRUE, 0, FALSE, "")
       IN  /\ otp_storage' = after
           /\ results' = Append(results, OtpLog("request_otp", otp_code, now, otp_storage,
                                                after, FALSE, res))
    /\ UNCHANGED <<codecVars, backend, now, row, fileOnDisk, pc, loc, sweepPc, sweepHit,
                   sweeps, guardVars>>

\* POST /verify-otp/{token}
VerifyOtp(otp_code) ==
    /\ codecStage = "stored"
    /\ LET file_record == get_file_record(row)
           checked == file_record.present /\ file_record.require_otp
           v == verify_otp(otp_storage, otp_code, now)
           after == IF checked THEN v.session ELSE otp_storage
           res == IF ~file_record.present THEN HttpResult(404, NotFoundDetail)
                  ELSE IF ~file_record.require_otp
                  THEN HttpResult(400, "This file does not require 2FA")
                  ELSE IF ~v.is_valid THEN HttpResult(403, v.error_msg)
                  ELSE Response(200, "OTP verified successfully", TRUE, 0, FALSE, "")
       IN  /\ otp_storage' = after
           /\ results' = Append(results, OtpLog("verify_otp", otp_code, now, otp_storage,
                                                after, checked /\ v.compared, res))
    /\ UNCHANGED <<codecVars, backend, now, row, fileOnDisk, pc, loc, sweepPc, sweepHit,
                   sweeps, guardVars>>

\* The OTP routes alone, next to the clock.
NextOtpService ==
    \/ \E in \in OtpSealInputs : SealServer(in)
    \/ \E otp_code \in OtpCodes : \E sent \in BOOLEAN :
          OtpCalls < MaxOtpCalls /\ RequestOtp(otp_code, sent)
    \/ \E otp_code \in OtpCodes : OtpCalls < MaxOtpCalls /\ VerifyOtp(otp_code)
    \/ Tick

SpecOtpService == InitServer /\ [][NextOtpService]_vars

\* Redemptions of a record with require_otp, next to the OTP routes.
NextOtp ==
    \/ \E in \in OtpSealInputs : SealServer(in)
    \/ \E otp_code \in OtpCodes : \E sent \in BOOLEAN :
          OtpCalls < MaxGateCalls /\ RequestOtp(otp_code, sent)
    \/ \E otp_code \in OtpCodes : OtpCalls < MaxGateCalls /\ VerifyOtp(otp_code)
    \/ \E p \in Procs : \E password \in RequestPasswords :
          Started < MaxOtpRedemptions /\ ShareFetch(p, password)
    \/ \E p \in Procs : ShareValidate(p)
    \/ \E p \in Procs : IncStep(p)
    \/ Tick

SpecOtp == InitServer /\ [][NextOtp]_vars

\* The step in which request p of share_file ends with a response other
\* than 200.
RejectsShare(p) ==
    /\ loc[p].op = "share"
    /\ pc[p] # "idle"
    /\ pc'[p] = "idle"
    /\ Len(results') = Len(results) + 1
    /\ results'[Len(results')].op = "share"
    /\ results'[Len(results')].res.status_code # 200

\* C31: the step that rejects a share_file redemption, for whatever reason,
\* leaves current_views of the ledger record unchanged and neither erases
\* nor modifies the stored container.
C31_RejectionLeavesLedgerAndBytes ==
    [][\A p \in Procs :
          RejectsShare(p) =>
              /\ row'.current_views = row.current_views
              /\ fileOnDisk' = fileOnDisk
              /\ envelope' = envelope]_vars

(***************************************************************************)
(* The same redemptions next to run_cleanup_loop repeating for ever.       *)
(***************************************************************************)
MaxOtpLiveRequests == 1

OtpLiveSealInputs ==
    [ file_data : {"hello"}, filename : Filenames, max_views : 1..MaxViews,
      expiry_minutes : ExpiryChoices, password : {<<>>}, view_only : {FALSE},
      storage_mode : {"server"}, now : {0}, salt : {"salt1"}, rnd : {"key1"},
      require_otp : {TRUE} ]

NextOtpLive ==
    \/ \E in \in OtpLiveSealInputs : SealServer(in)
    \/ \E otp_code \in OtpCodes : OtpCalls < MaxGateCalls /\ RequestOtp(otp_code, TRUE)
    \/ \E otp_code \in OtpCodes : OtpCalls < MaxGateCalls /\ VerifyOtp(otp_code)
    \/ \E p \in Procs : \E password \in RequestPasswords :
          Started < MaxOtpLiveRequests /\ ShareFetch(p, password)
    \/ \E p \in Procs : ShareStep(p)
    \/ \E p \in Procs : IncStep(p)
    \/ RunCleanupLoop
    \/ Tick

\* The loop task is scheduled again and again; requests and the clock may
\* stop at any point.
SpecOtpLive == InitServer /\ [][NextOtpLive]_vars /\ WF_vars(RunCleanupLoop)

\* C32: a container whose ledger record is flagged destroyed eventually has
\* its stored file erased, also after a redemption that failed once
\* increment_view_count had flagged the record, and although the sweep lists
\* live records only.
C32_DestroyedIsEventuallyErased == (Stored /\ Flagged(row)) ~> ~fileOnDisk

(***************************************************************************)
(* security.py: one (client, resource) pair through a lockout and out of   *)
(* it: failures, checks and successes for the one token while the clock    *)
(* advances.                                                               *)
(***************************************************************************)
MaxLockoutCalls == 7

NextLockout ==
    \/ Len(results) < MaxLockoutCalls /\ CheckAndDelay("token")
    \/ \E success \in BOOLEAN :
          Len(results) < MaxLockoutCalls /\ RecordAttempt("token", success)
    \/ Tick

SpecLockout == InitGuard /\ [][NextLockout]_vars

\* The failures recorded for the resource of call i before it whose time
\* lies within the last LOCKOUT_DURATION_MINUTES at that call.
RecordedFailuresInWindow(i) ==
    {j \in CallsFor(results[i].resource_id) :
        /\ j < i
        /\ results[j].op = "record"
        /\ ~results[j].success
        /\ results[j].at > results[i].at - LOCKOUT_DURATION_MINUTES}

\* C33: a lockout is temporary.  A check made when fewer than
\* MAX_PASSWORD_ATTEMPTS recorded failures of the pair lie within the last
\* LOCKOUT_DURATION_MINUTES does not raise, whatever was rejected before; and
\* a check that is rejected with LockedOut adds nothing to the history of the
\* pair, so it does not extend the lockout.
C33_LockoutIsTemporary ==
    /\ [](codecStage = "guarding" =>
             \A i \in DOMAIN results :
                 (results[i].op = "check"
                     /\ Cardinality(RecordedFailuresInWindow(i)) < MAX_PASSWORD_ATTEMPTS)
                 => ~results[i].locked)
    /\ [][(GuardCallMade /\ results'[Len(results')].op = "check"
              /\ results'[Len(results')].locked) =>
             \A r \in Resources :
                 HistoryOf(password_attempts', r)
                     = RecentAttempts(HistoryOf(password_attempts, r), now)]_vars

\* A check of the pair was rejected with LockedOut, a later check at a later
\* time passes with no success recorded in between.
C33_Witness ==
    /\ codecStage = "guarding"
    /\ \E i, k \in DOMAIN results :
          /\ i < k
          /\ results[i].op = "check" /\ results[i].locked
          /\ results[k].op = "check" /\ ~results[k].locked
          /\ results[k].resource_id = results[i].resource_id
          /\ results[k].at > results[i].at
          /\ \A m \in (i+1)..(k-1) : results[m].op = "check" /\ results[m].locked

(***************************************************************************)
(* decrypt/{bar_id}: what a redemption leaves on disk.                     *)
(***************************************************************************)
\* The step is a call of decrypt/{bar_id} that found the container.
DirectCallFound ==
    /\ codecStage = "stored"
    /\ Len(results') = Len(results) + 1
    /\ results'[Len(results')].op = "decrypt_bar"
    /\ results'[Len(results')].res.status_code # 404

\* The stored container grants the sealing credential a view now: the file
\* is there, not expired, with views left.
GrantsView(password) ==
    /\ fileOnDisk
    /\ password = sealInput.password
    /\ validate_bar_access(EnvelopeOf(envelope)["metadata"], password, now).is_valid

ViewsLeftAfter(metadata) == metadata["current_views"] + 1 < metadata["max_views"]

\* The container after the step is the one before with one more view, and
\* opens with the password to the same plaintext.
RewrittenWithOneMoreView(password, content) ==
    LET old == EnvelopeOf(envelope)
        new == EnvelopeOf(envelope')
        u == unpack_bar_file(envelope', password)
    IN  /\ fileOnDisk'
        /\ new["metadata"] = [old["metadata"] EXCEPT !["current_views"] = @ + 1]
        /\ new["encrypted_data"] = old["encrypted_data"]
        /\ u.exc = "none"
        /\ decrypt_file(u.encrypted_data, u.key).status = "ok"
        /\ decrypt_file(u.encrypted_data, u.key).data = content

\* C34: a decrypt/{bar_id} redemption with the sealing credential of a
\* container that grants a view succeeds, with or without password; when
\* views remain it rewrites the container with current_views one higher, all
\* other metadata and the payload unchanged, and the rewritten container
\* opens again with the same credential; when max_views is reached it erases
\* the container instead.
C34_RedemptionRewritesOrErases ==
    [][\A password \in RequestPasswords :
          (DirectCallFound /\ results'[Len(results')].password = password
              /\ GrantsView(password)) =>
             LET call == results'[Len(results')]
                 metadata == EnvelopeOf(envelope)["metadata"]
             IN  /\ call.res.status_code = 200
                 /\ IF ViewsLeftAfter(metadata)
                    THEN RewrittenWithOneMoreView(password, call.res.content)
                    ELSE ~fileOnDisk']_vars


(***************************************************************************)
(* Two-factor redemption: what one verification admits.                    *)
(***************************************************************************)
\* A finished redemption of a record with require_otp that passed every
\* check of share_file and whose view was counted by increment_view_count.
CountedOtpRedemption(r) ==
    /\ r.op = "share"
    /\ r.file_record.present
    /\ r.file_record.require_otp
    /\ r.decrypted_data # ""
    /\ ~(r.res.status_code = 500 /\ r.res.detail = "Failed to update view count")

\* No OTP was verified after call j of the history.
NoVerificationSince(j) ==
    \A m \in DOMAIN results :
        (m > j /\ results[m].op = "verify_otp") => results[m].res.status_code # 200

\* Request p leaves the 2FA gate of share_file in this step.
LeavesGate(p) == loc[p].op = "share" /\ pc[p] = "fetched" /\ pc'[p] # "fetched"

RefusedAtGate(p) ==
    /\ pc'[p] = "idle"
    /\ Len(results') = Len(results) + 1
    /\ results'[Len(results')].res = HttpResult(403, TwoFactorDetail)

\* C35: OTP verification is single-use.  A redemption of a record with
\* require_otp whose view was counted returns the plaintext with 200 and
\* leaves the token unverified; and once such a redemption has finished, a
\* redemption that reaches the gate is refused with "2FA verification
\* required" unless an OTP was verified since.
C35_VerificationIsSingleUse ==
    /\ [](Stored =>
             \A i \in DOMAIN results :
                 CountedOtpRedemption(results[i]) =>
                     /\ results[i].res.status_code = 200
                     /\ results[i].res.content = results[i].decrypted_data)
    /\ [][\A p \in Procs :
             (/\ loc[p].op = "share" /\ pc[p] # "idle" /\ pc'[p] = "idle"
              /\ Len(results') = Len(results) + 1
              /\ CountedOtpRedemption(results'[Len(results')]))
                 => ~is_verified(otp_storage')]_vars
    /\ [][\A p \in Procs :
             (/\ LeavesGate(p)
              /\ loc[p].file_record.present
              /\ loc[p].file_record.require_otp
              /\ \E j \in DOMAIN results :
                    CountedOtpRedemption(results[j]) /\ NoVerificationSince(j))
                 => RefusedAtGate(p)]_vars

(***************************************************************************)
(* OTPService.verify_otp: attempts, expiry and reuse of one session.       *)
(***************************************************************************)
VerifyCalls == {i \in DOMAIN results : results[i].op = "verify_otp"}

\* The session call i found is there, not verified and not expired.
OpenSession(i) ==
    /\ results[i].session.present
    /\ ~results[i].session.verified
    /\ results[i].checked_at <= results[i].session.expires_at

\* C36: for one OTP session at most MAX_OTP_ATTEMPTS submitted codes are
\* compared with the stored hash: a code is compared only on a session that
\* is there, not verified, not expired and has fewer than MAX_OTP_ATTEMPTS
\* attempts, and the comparison counts as one attempt; a code is accepted only
\* after such a comparison with the code of the session.  After
\* MAX_OTP_ATTEMPTS wrong codes a further verify_otp fails, also with the
\* right code, and removes the session; a session that is expired or already
\* verified accepts no code.
C36_AttemptsAreCapped ==
    Stored =>
       /\ otp_storage.attempts <= MAX_OTP_ATTEMPTS
       /\ \A i \in VerifyCalls :
             LET call == results[i]
             IN  /\ call.compared =>
                       /\ OpenSession(i)
                       /\ call.session.attempts < MAX_OTP_ATTEMPTS
                       /\ call.session_after.attempts = call.session.attempts + 1
                 /\ call.res.status_code = 200 =>
                       /\ call.compared
                       /\ sha256(call.otp_code) = call.session.otp_hash
                 /\ (OpenSession(i) /\ call.session.attempts >= MAX_OTP_ATTEMPTS) =>
                       /\ call.res.status_code # 200
                       /\ ~call.compared
                       /\ ~call.session_after.present
                 /\ (call.session.present /\ ~OpenSession(i)) =>
                       /\ call.res.status_code # 200
                       /\ ~call.compared

\* After three wrong codes the right code is submitted in time and refused,
\* and the session is gone.
C36_Witness ==
    /\ Stored
    /\ ~otp_storage.present
    /\ \E i \in VerifyCalls :
          /\ i = Len(results)
          /\ OpenSession(i)
          /\ results[i].session.attempts = MAX_OTP_ATTEMPTS
          /\ sha256(results[i].otp_code) = results[i].session.otp_hash
          /\ results[i].res.status_code = 403
          /\ \A k \in (i - MAX_OTP_ATTEMPTS)..(i - 1) :
                /\ k \in VerifyCalls
                /\ results[k].compared
                /\ results[k].res.status_code = 403

=============================================================================
